---- MODULE Spec2Model ----
(***************************************************************************)
(* A model of the query planner, the rate limited Overpass client and the  *)
(* TTL cache of osmd (src/osmd/data/cache.py, src/osmd/data/collector.py,  *)
(* src/osmd/utils/helpers.py), of the growth computations of               *)
(* src/osmd/analysis/metrics.py and src/osmd/analysis/spatial.py, and of   *)
(* the removal of duplicates of src/osmd/data/processor.py, and of the     *)
(* stages of src/osmd/analysis/analyzer.py.                                *)
(*                                                                         *)
(* Time is the value of time.time() / datetime.now(), counted in half      *)
(* seconds, so that 1.0 s, 1.5 s and 24 h are all whole numbers.           *)
(***************************************************************************)
EXTENDS Integers, Sequences, FiniteSets, TLC

VARIABLES
    now,              \* the wall clock, in half seconds
    files,            \* the cache directory: path -> file (or NoFile)
    ret,              \* what the last cache operation was given and returned
    steps,            \* how many operations have been called
    ticks,            \* how many times the clock has been advanced
    cacheEnabled,     \* osm.cache_enabled: whether the collector has a cache
    lastRequestTime,  \* OSMDataCollector.last_request_time
    sent,             \* the last two requests sent to Overpass
    run,              \* the collect in progress: its position and locals
    out,              \* what the last collect was given and returned
    lastGood,         \* request -> the last non-empty result collect_data returned
    threads,          \* thread -> its position in the call it is making
    pin,              \* the input of the computation, or the analysis in progress
    pout              \* its output

clockVars == <<now, ticks>>
collectorVars == <<cacheEnabled, lastRequestTime, sent, run, out, lastGood>>
threadVars == <<threads>>
pureVars == <<pin, pout>>
vars == <<now, files, ret, steps, ticks, cacheEnabled, lastRequestTime, sent,
          run, out, lastGood, threads, pin, pout>>

\* What each specification leaves alone.
notCache == <<collectorVars, threadVars, pureVars>>
notCollector == <<ret, threadVars, pureVars>>
notThreads == <<files, ret, ticks, steps, cacheEnabled, sent, run, out, lastGood,
                pureVars>>
notPure == <<clockVars, files, ret, steps, collectorVars, threadVars>>

(***************************************************************************)
(* Program constants, in half seconds.                                     *)
(***************************************************************************)
MinRequestInterval == 2
ChunkSleep == 3
CacheTTL == 172800

(***************************************************************************)
(* Bounds of the model.                                                    *)
(***************************************************************************)
StartTime == 10
MaxTicks == 2
MaxSteps == 3
MaxCalls == 2
MaxRequests == 4
MaxDuration == 1
NumThreads == 2
MaxThreadRequests == 1
MaxClock == 3
MantissaBits == 5
NumCells == 2
ManyCount == 22

TickSteps == {1, CacheTTL - 1}

(***************************************************************************)
(* Values.                                                                 *)
(***************************************************************************)
None == [kind |-> "None"]

\* A GeoDataFrame: its rows in order, a row being an OSM element.
Gdf(rows) == [kind |-> "gdf", rows |-> rows]
EmptyGdf == Gdf(<<>>)
Row(id, from) == [osm_id |-> id, osm_type |-> "way", from |-> from]

IsEmpty(data) == Len(data.rows) = 0

\* A feature tag: "key" when value = 0, "key=tNN" when value = NN > 0.
Feat(k, v) == [key |-> k, value |-> v]

KeyRank(k) ==
    CASE k = "amenity" -> 1
      [] k = "building" -> 2
      [] k = "highway" -> 3
      [] k = "landuse" -> 4
      [] OTHER -> 5

\* The order of Python's str comparison on these tags.
FeatureLess(a, b) ==
    \/ KeyRank(a.key) < KeyRank(b.key)
    \/ KeyRank(a.key) = KeyRank(b.key) /\ a.value < b.value

RECURSIVE InsertSorted(_, _)
InsertSorted(f, s) ==
    IF s = <<>> THEN <<f>>
    ELSE IF FeatureLess(f, Head(s)) THEN <<f>> \o s
    ELSE <<Head(s)>> \o InsertSorted(f, Tail(s))

RECURSIVE Sorted(_)
Sorted(features) ==
    IF features = <<>> THEN <<>>
    ELSE InsertSorted(Head(features), Sorted(Tail(features)))

(***************************************************************************)
(* Numbers: Python and numpy floats as exact fractions, with the values    *)
(* that a division by zero gives. The growth computations are taken        *)
(* without rounding; the coordinates of boxes and grids are rounded after  *)
(* every operation to a mantissa of MantissaBits bits, as IEEE 754 rounds   *)
(* to 53.                                                                  *)
(***************************************************************************)
Abs(n) == IF n < 0 THEN -n ELSE n

RECURSIVE Gcd(_, _)
Gcd(a, b) == IF b = 0 THEN a ELSE Gcd(b, a % b)

\* The fraction n / d, d > 0, in lowest terms.
Num(n, d) ==
    LET g == Gcd(Abs(n), d)
    IN [kind |-> "num", num |-> n \div g, den |-> d \div g]
Number(n) == Num(n, 1)
NaN == [kind |-> "nan"]
Inf(sign) == [kind |-> "inf", sign |-> sign]
ZeroDivisionError == [kind |-> "ZeroDivisionError"]

Positive(a) == a.kind = "num" /\ a.num > 0

Sub(a, b) == Num(a.num * b.den - b.num * a.den, a.den * b.den)

\* a * b for a finite b: what is no number stays what it is.
Mul(a, b) ==
    IF a.kind # "num" THEN a
    ELSE Num(a.num * b.num, a.den * b.den)

\* a / b on Python numbers.
PyDiv(a, b) ==
    IF a.kind # "num" THEN a
    ELSE IF b.num = 0 THEN ZeroDivisionError
    ELSE IF b.num > 0 THEN Num(a.num * b.den, a.den * b.num)
    ELSE Num(-(a.num * b.den), a.den * (-b.num))

\* a / b on the elements of two pandas Series.
NpDiv(a, b) ==
    IF b.num # 0 THEN PyDiv(a, b)
    ELSE IF a.num = 0 THEN NaN
    ELSE Inf(IF a.num > 0 THEN 1 ELSE -1)

Fillna(x, v) == IF x.kind = "nan" THEN v ELSE x
ReplaceInf(x, v) == IF x.kind = "inf" THEN v ELSE x

Add(a, b) == Num(a.num * b.den + b.num * a.den, a.den * b.den)
Less(a, b) == a.num * b.den < b.num * a.den

RECURSIVE Pow2(_)
Pow2(n) == IF n = 0 THEN 1 ELSE 2 * Pow2(n - 1)

\* The whole number nearest to n / d, the even one of two that are as near.
RoundHalfEven(n, d) ==
    LET q == n \div d
        r == n % d
    IN IF 2 * r < d THEN q
       ELSE IF 2 * r > d THEN q + 1
       ELSE IF q % 2 = 0 THEN q ELSE q + 1

\* The float nearest to n / d > 0: n / d is scaled by powers of two into
\* [2^(MantissaBits - 1), 2^MantissaBits), rounded there and scaled back.
RECURSIVE RoundPositive(_, _)
RoundPositive(n, d) ==
    IF n >= Pow2(MantissaBits) * d
    THEN LET r == RoundPositive(n, 2 * d) IN Num(2 * r.num, r.den)
    ELSE IF n < Pow2(MantissaBits - 1) * d
    THEN LET r == RoundPositive(2 * n, d) IN Num(r.num, 2 * r.den)
    ELSE Number(RoundHalfEven(n, d))

\* The float that an exact result is rounded to.
Fl(x) ==
    IF x.num = 0 THEN x
    ELSE IF x.num > 0 THEN RoundPositive(x.num, x.den)
    ELSE LET r == RoundPositive(-x.num, x.den) IN Num(-r.num, r.den)

FAdd(a, b) == Fl(Add(a, b))
FSub(a, b) == Fl(Sub(a, b))
FMul(a, b) == Fl(Num(a.num * b.num, a.den * b.den))
FDiv(a, b) == Fl(PyDiv(a, b))

\* Bounding boxes (south, west, north, east) of floats, on a local plane
\* whose unit is the kilometre.
FloatBbox(s, w, n, e) == [south |-> s, west |-> w, north |-> n, east |-> e]
\* A box whose coordinates are whole numbers.
Bbox(s, w, n, e) == FloatBbox(Number(s), Number(w), Number(n), Number(e))
SmallBbox == Bbox(0, 0, 10, 10)
BigBbox == Bbox(0, 0, 12, 16)
\* With ManyFeatures, a box of complexity 1500 exactly.
EdgeBbox == Bbox(0, 0, 12, 15)
\* Boxes that validate_coordinates rejects: south above north, west equal to
\* east, a latitude below -90, a longitude above 180.
InvertedBbox == Bbox(10, 0, 0, 10)
FlatBbox == Bbox(0, 10, 10, 10)
PolarBbox == Bbox(-96, 0, -88, 8)
FarBbox == Bbox(0, 176, 8, 192)
InvalidBboxes == {InvertedBbox, FlatBbox, PolarBbox, FarBbox}

OneFeature == <<Feat("building", 0)>>
ManyFeatures == [i \in 1..ManyCount |-> Feat("building", i)]

NoDate == "None"

Request(b, f, d) == [bbox |-> b, features |-> f, date_filter |-> d]

TwoFeatures == <<Feat("building", 0), Feat("highway", 0)>>
TwoFeaturesReversed == <<Feat("highway", 0), Feat("building", 0)>>
SomeDate == "2020-01-01"

\* sorted(features) of the feature lists of the model, computed once.
FeatureLists == {OneFeature, ManyFeatures, TwoFeatures, TwoFeaturesReversed}
SortedFeatures == [f \in FeatureLists |-> Sorted(f)]

(***************************************************************************)
(* The cache store (cache.py).                                             *)
(***************************************************************************)
Namespaces == {"osm_data", "processed_data", "analysis_results", "metadata"}

\* The parameters with the date filter left out.
KeyDataWithoutDate(bbox, features, date_filter) ==
    [bbox |-> bbox, features |-> features, date_filter |-> NoDate,
     type |-> "osm_data"]

\* The parameter sets that the model hashes.
KeyData(bbox, features, date_filter) ==
    [bbox |-> bbox, features |-> features, date_filter |-> date_filter,
     type |-> "osm_data"]

\* The parameter sets that the model hashes, in the order of their digests.
HashedRequests ==
    <<Request(SmallBbox, OneFeature, NoDate),
      Request(BigBbox, ManyFeatures, NoDate),
      Request(Bbox(0, 0, 6, 8), ManyFeatures, NoDate),
      Request(Bbox(0, 8, 6, 16), ManyFeatures, NoDate),
      Request(Bbox(6, 0, 12, 8), ManyFeatures, NoDate),
      Request(Bbox(6, 8, 12, 16), ManyFeatures, NoDate),
      Request(EdgeBbox, ManyFeatures, NoDate),
      Request(SmallBbox, OneFeature, SomeDate),
      Request(BigBbox, OneFeature, NoDate),
      Request(BigBbox, OneFeature, SomeDate),
      Request(SmallBbox, TwoFeatures, NoDate),
      Request(SmallBbox, TwoFeatures, SomeDate),
      Request(BigBbox, TwoFeatures, NoDate),
      Request(BigBbox, TwoFeatures, SomeDate),
      Request(InvertedBbox, OneFeature, NoDate),
      Request(FlatBbox, OneFeature, NoDate),
      Request(PolarBbox, OneFeature, NoDate),
      Request(FarBbox, OneFeature, NoDate)>>

KeyDataOfAll(requests) ==
    [n \in DOMAIN requests |->
        KeyData(requests[n].bbox, SortedFeatures[requests[n].features],
                requests[n].date_filter)]
HashedData == KeyDataOfAll(HashedRequests)

\* The digest of a parameter set is its place in the table.
DigestIn(hashed, data) == CHOOSE n \in DOMAIN hashed : hashed[n] = data
GenerateCacheKey(data) == DigestIn(HashedData, data)

OsmKey(bbox, features, date_filter) ==
    GenerateCacheKey(KeyData(bbox, SortedFeatures[features], date_filter))

GetCachePath(cache_type, cache_key, file_format) ==
    [dir |-> cache_type, name |-> cache_key, ext |-> file_format]

NoFile == [exists |-> FALSE]
File(mtime, content) == [exists |-> TRUE, mtime |-> mtime, content |-> content]

\* pickle.dump / json.dump write a blob of their format holding the value;
\* a write that fails part way leaves a truncated blob.
Pickle(data) == [fmt |-> "pkl", body |-> data]
JsonDump(data) == [fmt |-> "json", body |-> data]
Truncated == [fmt |-> "truncated"]

\* pickle.load / json.load: the value of an intact blob of the right
\* format; anything else raises.
Loads(content, fmt) == content.fmt = fmt

IsCacheValidStale(fs, path, t) ==
    fs[path].exists /\ t - fs[path].mtime <= CacheTTL

IsCacheValid(fs, path, t) ==
    fs[path].exists /\ t - fs[path].mtime < CacheTTL

\* The body shared by get_osm_data, get_processed_data, get_analysis_results:
\* the value returned and the files left behind.
ReadKeepsCorrupt(fs, path, fmt, t) ==
    IF IsCacheValid(fs, path, t) /\ Loads(fs[path].content, fmt)
    THEN [result |-> fs[path].content.body, files |-> fs, raised |-> FALSE]
    ELSE [result |-> None, files |-> fs, raised |-> FALSE]

ReadEntry(fs, path, fmt, t) ==
    IF IsCacheValid(fs, path, t)
    THEN IF Loads(fs[path].content, fmt)
         THEN [result |-> fs[path].content.body, files |-> fs, raised |-> FALSE]
         ELSE [result |-> None, files |-> [fs EXCEPT ![path] = NoFile],
               raised |-> FALSE]
    ELSE [result |-> None, files |-> fs, raised |-> FALSE]

\* The outcomes of the file system under a save: every write works ("ok"),
\* open() of the entry fails, the dump of the entry fails part way, or the
\* entry is written and the write of its metadata fails part way.
IoOutcomes == {"ok", "open_fails", "dump_fails", "meta_fails"}

\* save_processed_data, save_analysis_results: one file.
WriteEntry(fs, path, blob, t, io) ==
    CASE io \in {"ok", "meta_fails"} -> [fs EXCEPT ![path] = File(t, blob)]
      [] io = "open_fails" -> fs
      [] io = "dump_fails" -> [fs EXCEPT ![path] = File(t, Truncated)]

OsmPath(bbox, features, date_filter) ==
    GetCachePath("osm_data", OsmKey(bbox, features, date_filter), "pkl")
MetaPath(bbox, features, date_filter) ==
    GetCachePath("metadata", OsmKey(bbox, features, date_filter), "json")

MetadataOf(data, bbox, features, date_filter, t, cache_key) ==
    [bbox |-> bbox, features |-> features, date_filter |-> date_filter,
     cached_at |-> t, record_count |-> Len(data.rows),
     cache_key |-> cache_key]
Metadata(data, bbox, features, date_filter, t) ==
    MetadataOf(data, bbox, features, date_filter, t,
               OsmKey(bbox, features, date_filter))

\* save_osm_data: the entry, then its metadata; no exception leaves it.
SaveUnderKey(fs, data, bbox, features, date_filter, t, io, cache_key) ==
    LET path == GetCachePath("osm_data", cache_key, "pkl")
        meta == GetCachePath("metadata", cache_key, "json")
        md   == MetadataOf(data, bbox, features, date_filter, t, cache_key)
    IN CASE io = "ok" ->
              [fs EXCEPT ![path] = File(t, Pickle(data)),
                         ![meta] = File(t, JsonDump(md))]
         [] io = "open_fails" -> fs
         [] io = "dump_fails" -> [fs EXCEPT ![path] = File(t, Truncated)]
         [] io = "meta_fails" ->
              [fs EXCEPT ![path] = File(t, Pickle(data)),
                         ![meta] = File(t, Truncated)]

SaveOsmData(fs, data, bbox, features, date_filter, t, io) ==
    SaveUnderKey(fs, data, bbox, features, date_filter, t, io,
                 OsmKey(bbox, features, date_filter))

GetOsmDataOfMetadata(fs, bbox, features, date_filter, t) ==
    ReadEntry(fs, MetaPath(bbox, features, date_filter), "pkl", t)

GetOsmData(fs, bbox, features, date_filter, t) ==
    ReadEntry(fs, OsmPath(bbox, features, date_filter), "pkl", t)

GetProcessedData(fs, data_id, t) ==
    ReadEntry(fs, GetCachePath("processed_data", data_id, "pkl"), "pkl", t)

GetAnalysisResults(fs, analysis_id, t) ==
    ReadEntry(fs, GetCachePath("analysis_results", analysis_id, "json"), "json", t)

(***************************************************************************)
(* The query planner (helpers.py).                                         *)
(***************************************************************************)
BroadFeatures == {"building", "highway", "landuse", "amenity"}

\* haversine_distance along the south edge and along the west edge, in km:
\* on the model's plane, the differences of the coordinates.
Magnitude(x) == Num(Abs(x.num), x.den)
WidthKm(bbox) == Magnitude(Sub(bbox.east, bbox.west))
HeightKm(bbox) == Magnitude(Sub(bbox.north, bbox.south))
AreaKm2(bbox) == Mul(WidthKm(bbox), HeightKm(bbox))

\* any(broad in feature.lower() for broad in broad_features)
\* word in feature.lower(), for the keys of the model: building:levels is
\* the one key that holds another as a part.
Mentions(f, word) ==
    f.key = word \/ (f.key = "building:levels" /\ word = "building")
IsBroad(f) == \E broad \in BroadFeatures : Mentions(f, broad)

\* int(x) for x >= 0
IntPart(x) == x.num \div x.den

EstimateQueryComplexity(bbox, features) ==
    IntPart(AreaKm2(bbox)) + Len(features) * 10
        + 50 * Cardinality({i \in DOMAIN features : IsBroad(features[i])})

\* optimize_overpass_query: the clauses of the query.  A feature is a key
\* with a value ("key=value") or a key alone (value 0).
HasValue(f) == f.value # 0
Clause(element, f) == [element |-> element, key |-> f.key, value |-> f.value]
Clauses(f) == <<Clause("way", f), Clause("relation", f)>>

\* for feature in ..._features: if "=" in feature: two clauses
RECURSIVE ValuedClauses(_)
ValuedClauses(features) ==
    IF features = <<>> THEN <<>>
    ELSE (IF HasValue(Head(features)) THEN Clauses(Head(features)) ELSE <<>>)
            \o ValuedClauses(Tail(features))

\* The building group and the highway group: the key alone when it is the
\* only feature of its group, otherwise the features with a value.
GroupClauses(group, word) ==
    IF group = <<>> THEN <<>>
    ELSE IF Len(group) = 1 /\ group[1] = Feat(word, 0) THEN Clauses(group[1])
    ELSE ValuedClauses(group)

\* for feature in other_features: two clauses, with or without a value
RECURSIVE OtherClauses(_)
OtherClauses(features) ==
    IF features = <<>> THEN <<>>
    ELSE Clauses(Head(features)) \o OtherClauses(Tail(features))

OptimizeOverpassQuery(bbox, features) ==
    LET building_features == SelectSeq(features, LAMBDA f : Mentions(f, "building"))
        highway_features == SelectSeq(features, LAMBDA f : Mentions(f, "highway"))
        other_features ==
            SelectSeq(features, LAMBDA f : /\ ~Mentions(f, "building")
                                           /\ ~Mentions(f, "highway"))
    IN [timeout |-> IF EstimateQueryComplexity(bbox, features) < 1000
                    THEN 300 ELSE 600,
        bbox |-> bbox,
        clauses |-> GroupClauses(building_features, "building")
                        \o GroupClauses(highway_features, "highway")
                        \o OtherClauses(other_features)]

ComplexityThreshold == 1500
HighComplexityInclusive(complexity) == complexity >= ComplexityThreshold
\* if complexity > 1500
HighComplexity(complexity) == complexity > ComplexityThreshold
ChunkAreaKm2 == 50

\* math.ceil(math.sqrt(area_km2 / max_area_km2)) for area_km2 > 0
Divisions(area_km2, max_area_km2) ==
    CHOOSE d \in 1..(IntPart(area_km2) + 1) :
        /\ d * d * max_area_km2 * area_km2.den >= area_km2.num
        /\ \A e \in 1..(d - 1) : e * e * max_area_km2 * area_km2.den < area_km2.num

\* The test of split_large_bbox that never lets a box pass.
NeverWithinLimit(area_km2, max_area_km2) == FALSE

\* area_km2 <= max_area_km2
WithinLimit(area_km2, max_area_km2) == ~Less(Number(max_area_km2), area_km2)

\* south + i * lat_step, each operation rounded
Edge(start, i, step) == FAdd(start, FMul(Number(i), step))

SplitLargeBbox(bbox, max_area_km2) ==
    IF WithinLimit(AreaKm2(bbox), max_area_km2) THEN <<bbox>>
    ELSE LET divisions == Divisions(AreaKm2(bbox), max_area_km2)
             lat_step == FDiv(FSub(bbox.north, bbox.south), Number(divisions))
             lon_step == FDiv(FSub(bbox.east, bbox.west), Number(divisions))
         IN [k \in 1..(divisions * divisions) |->
                LET i == (k - 1) \div divisions
                    j == (k - 1) % divisions
                IN FloatBbox(Edge(bbox.south, i, lat_step),
                             Edge(bbox.west, j, lon_step),
                             Edge(bbox.south, i + 1, lat_step),
                             Edge(bbox.west, j + 1, lon_step))]

\* math.ceil of a number.
Ceil(x) == IF x.num % x.den = 0 THEN x.num \div x.den ELSE x.num \div x.den + 1

\* numpy.arange(start, stop, step) on floats: ceil((stop - start) / step)
\* elements, the first two being start and start + step and element i being
\* start + i * delta, with delta the difference of the first two.
Arange(start, stop, step) ==
    LET length == Ceil(FDiv(FSub(stop, start), step))
        delta == FSub(FAdd(start, step), start)
    IN IF length <= 0 THEN <<>>
       ELSE [k \in 1..length |->
                IF k = 1 THEN start
                ELSE IF k = 2 THEN FAdd(start, step)
                ELSE FAdd(start, FMul(Number(k - 1), delta))]

KmPerDegree == Num(11132, 100)

\* create_analysis_grid: one square cell for every pair of coordinates but
\* the last of each axis, column by column.
CreateAnalysisGrid(bbox, grid_size_km) ==
    LET grid_size_deg == FDiv(Number(grid_size_km), Fl(KmPerDegree))
        x_coords == Arange(bbox.west, FAdd(bbox.east, grid_size_deg), grid_size_deg)
        y_coords == Arange(bbox.south, FAdd(bbox.north, grid_size_deg), grid_size_deg)
        nx == IF Len(x_coords) = 0 THEN 0 ELSE Len(x_coords) - 1
        ny == IF Len(y_coords) = 0 THEN 0 ELSE Len(y_coords) - 1
    IN [k \in 1..(nx * ny) |->
           LET i == (k - 1) \div ny
               j == (k - 1) % ny
               x == x_coords[i + 1]
               y == y_coords[j + 1]
           IN [grid_id |-> <<"grid", i, j>>,
               west |-> x, south |-> y,
               east |-> FAdd(x, grid_size_deg),
               north |-> FAdd(y, grid_size_deg)]]

(***************************************************************************)
(* The collector (collector.py).                                           *)
(***************************************************************************)
\* What the Overpass server does with a request: the three failures that
\* _make_overpass_request catches, a body that is JSON but no object, or an
\* object with a list of elements.
FailedKinds == {"timeout", "transport", "bad_json"}
Way(id, from) == Row(id, from)
Relation(id, from) == [osm_id |-> id, osm_type |-> "relation", from |-> from]
\* The whole box (c = 0) is answered with one of two sets of ways; sub-box c
\* with way c + 1 and way 1, which every sub-box touches.
ElementLists(c) ==
    IF c = 0
    THEN {<<>>, <<Relation(9, c)>>, <<Way(1, c)>>, <<Way(1, c), Relation(9, c), Way(2, c)>>}
    ELSE {<<>>, <<Relation(9, c)>>, <<Way(c + 1, c), Relation(9, c), Way(1, c)>>}

\* How the answer fares upstream of the parser.
Upstream(resp) ==
    IF resp.kind \in FailedKinds THEN "failed"
    ELSE IF resp.kind = "not_object" THEN "malformed"
    ELSE "answered"

Responses(c) ==
    {[kind |-> k] : k \in FailedKinds \cup {"not_object"}}
    \cup {[kind |-> "json", elements |-> e] : e \in ElementLists(c)}

\* _rate_limit: the clock and last_request_time when it returns. time.sleep
\* is taken to sleep exactly the time asked, the least it may sleep.
RateLimitNoSleep(last, t) == [now |-> t, last |-> t]

RateLimit(last, t) ==
    LET time_since_last == t - last
        woke == IF time_since_last < MinRequestInterval
                THEN t + (MinRequestInterval - time_since_last)
                ELSE t
    IN [now |-> woke, last |-> woke]

\* _make_overpass_request: the request is sent when _rate_limit returns and
\* takes dur to be answered.
MakeOverpassRequest(last, t, resp, dur) ==
    LET rl == RateLimit(last, t)
    IN [response |-> IF resp.kind \in FailedKinds THEN None ELSE resp,
        sent |-> rl.now, last |-> rl.last, now |-> rl.now + dur]

\* _parse_osm_elements: relations are skipped.
ParseOsmElements(elements) ==
    Gdf(SelectSeq(elements, LAMBDA e : e.osm_type # "relation"))

ShouldCacheAlways(cache, gdf) == cache

\* if self.cache and gdf is not None and not gdf.empty
ShouldCache(cache, gdf) == cache /\ gdf # None /\ ~IsEmpty(gdf)

\* _collect_data_single: the result, whether an exception left it, the
\* files, the clock and last_request_time afterwards, and when the request
\* was sent.
CollectDataSingle(fs, cache, last, t, bbox, features, date_filter, resp, dur, io) ==
    LET rq == MakeOverpassRequest(last, t, resp, dur)
        timing == [sent |-> rq.sent, last |-> rq.last, now |-> rq.now]
    IN IF rq.response = None
       THEN timing @@ [result |-> None, raised |-> FALSE, res |-> "none", files |-> fs]
       ELSE IF rq.response.kind = "not_object"
       THEN timing @@ [result |-> None, raised |-> TRUE, res |-> "raise", files |-> fs]
       ELSE IF rq.response.elements = <<>>
       THEN timing @@ [result |-> EmptyGdf, raised |-> FALSE, res |-> "empty",
                       files |-> fs]
       ELSE LET gdf == ParseOsmElements(rq.response.elements)
            IN timing @@
               [result |-> gdf, raised |-> FALSE,
                res |-> IF IsEmpty(gdf) THEN "empty" ELSE "data",
                files |-> IF ShouldCache(cache, gdf)
                          THEN SaveOsmData(fs, gdf, bbox, features, date_filter,
                                           rq.now, io)
                          ELSE fs]

\* pd.concat(all_data, ignore_index=True)
RECURSIVE Concat(_)
Concat(all_data) ==
    IF all_data = <<>> THEN <<>>
    ELSE Head(all_data).rows \o Concat(Tail(all_data))

\* drop_duplicates(subset=['osm_id'], keep='last')
DropDuplicatesKeepLast(rows) ==
    LET keep == {i \in DOMAIN rows :
                    \A j \in (i + 1)..Len(rows) : rows[j].osm_id # rows[i].osm_id}
        F[i \in 0..Len(rows)] ==
            IF i = 0 THEN <<>>
            ELSE IF i \in keep THEN Append(F[i - 1], rows[i]) ELSE F[i - 1]
    IN F[Len(rows)]

\* drop_duplicates(subset=['osm_id'], keep='first')
DropDuplicates(rows) ==
    LET keep == {i \in DOMAIN rows :
                    \A j \in 1..(i - 1) : rows[j].osm_id # rows[i].osm_id}
        F[i \in 0..Len(rows)] ==
            IF i = 0 THEN <<>>
            ELSE IF i \in keep THEN Append(F[i - 1], rows[i]) ELSE F[i - 1]
    IN F[Len(rows)]

\* The end of _collect_data_chunked, after the loop over the sub-boxes.
CombineChunks(fs, cache, all_data, bbox, features, date_filter, t, io) ==
    IF all_data = <<>>
    THEN [result |-> None, files |-> fs]
    ELSE LET combined_gdf == Gdf(DropDuplicates(Concat(all_data)))
         IN [result |-> combined_gdf,
             files |-> IF cache /\ ~IsEmpty(combined_gdf)
                       THEN SaveOsmData(fs, combined_gdf, bbox, features,
                                        date_filter, t, io)
                       ELSE fs]

\* collect_historical_data, from the current data on.
Range(s) == {s[i] : i \in DOMAIN s}
MaxOf(S) == CHOOSE m \in S : \A x \in S : x <= m
YearIndex(years, year) == Cardinality({y \in Range(years) : y < year})

\* current_data.sample(n=sample_size, random_state=year)
Sample(current_data, n, year) ==
    [kind |-> "sample", of |-> current_data, n |-> n, random_state |-> year]

SampleSize(len, i, n) ==
    LET scaled == (len * (3 * n + 7 * i)) \div (10 * n)
    IN IF scaled > 1 THEN scaled ELSE 1

HistoricalData(current_data, years) ==
    IF current_data = None \/ IsEmpty(current_data)
    THEN [y \in Range(years) |-> EmptyGdf]
    ELSE [y \in Range(years) |->
            IF y = MaxOf(Range(years)) THEN current_data
            ELSE LET size == SampleSize(Len(current_data.rows),
                                        YearIndex(years, y), Len(years))
                 IN IF size < Len(current_data.rows)
                    THEN Sample(current_data, size, y)
                    ELSE current_data]

(***************************************************************************)
(* The growth computations (metrics.py, spatial.py). A collection of a     *)
(* year is given by what the computations read of it: the number of its    *)
(* features and the sum of their areas or lengths, its area by category,   *)
(* the number of its buildings in each cell of the grid.                   *)
(***************************************************************************)
\* A dict is given by its keys in insertion order and the value of each key.
\* list(d.keys()), without the sort.
KeysAsGiven(keys) == keys

InsertKey(k, s) ==
    LET n == Cardinality({i \in DOMAIN s : s[i] <= k})
    IN SubSeq(s, 1, n) \o <<k>> \o SubSeq(s, n + 1, Len(s))

\* sorted(d.keys())
RECURSIVE SortedKeys(_)
SortedKeys(keys) ==
    IF keys = <<>> THEN <<>>
    ELSE InsertKey(Head(keys), SortedKeys(Tail(keys)))

\* for i in range(1, len(years)): (years[i-1], years[i])
Periods(years) == {<<years[i], years[i + 1]>> : i \in 1..(Len(years) - 1)}

GrowthPercentUnguarded(prev, curr) ==
    Mul(PyDiv(Sub(curr, prev), prev), Number(100))

\* ((curr - prev) / prev * 100) if prev > 0 else 0
GrowthPercent(prev, curr) ==
    IF Positive(prev)
    THEN Mul(PyDiv(Sub(curr, prev), prev), Number(100))
    ELSE Number(0)

CalculateBuildingGrowth(keys, buildings_by_year) ==
    IF Len(keys) < 2 THEN [kind |-> "empty"]
    ELSE
    LET years == SortedKeys(keys)
        building_counts == [y \in DOMAIN buildings_by_year |->
            IF buildings_by_year[y].count = 0 THEN 0 ELSE buildings_by_year[y].count]
        total_area_m2 == [y \in DOMAIN buildings_by_year |->
            IF buildings_by_year[y].count = 0 THEN Number(0)
            ELSE Number(buildings_by_year[y].area_m2)]
        average_building_size_m2 == [y \in DOMAIN buildings_by_year |->
            IF buildings_by_year[y].count = 0 THEN Number(0)
            ELSE PyDiv(Number(buildings_by_year[y].area_m2),
                       Number(buildings_by_year[y].count))]
    IN [kind |-> "building_growth",
        years |-> years,
        building_counts |-> building_counts,
        total_area_m2 |-> total_area_m2,
        average_building_size_m2 |-> average_building_size_m2,
        growth_rates |-> [k \in Periods(years) |->
            LET prev_count == building_counts[k[1]]
                curr_count == building_counts[k[2]]
                prev_area == total_area_m2[k[1]]
                curr_area == total_area_m2[k[2]]
                count_growth == GrowthPercent(Number(prev_count), Number(curr_count))
                area_growth == GrowthPercent(prev_area, curr_area)
            IN [count_growth_percent |-> count_growth,
                area_growth_percent |-> area_growth,
                new_buildings |-> curr_count - prev_count,
                new_area_m2 |-> Sub(curr_area, prev_area),
                years_elapsed |-> k[2] - k[1],
                annual_count_growth_percent |-> PyDiv(count_growth, Number(k[2] - k[1])),
                annual_area_growth_percent |-> PyDiv(area_growth, Number(k[2] - k[1]))]]]

CalculateRoadGrowth(keys, roads_by_year) ==
    IF Len(keys) < 2 THEN [kind |-> "empty"]
    ELSE
    LET years == SortedKeys(keys)
        road_counts == [y \in DOMAIN roads_by_year |->
            IF roads_by_year[y].count = 0 THEN 0 ELSE roads_by_year[y].count]
        total_length_km == [y \in DOMAIN roads_by_year |->
            IF roads_by_year[y].count = 0 THEN Number(0)
            ELSE PyDiv(Number(roads_by_year[y].length_m), Number(1000))]
        empty_years == {y \in DOMAIN roads_by_year : roads_by_year[y].count = 0}
    IN [kind |-> "road_growth",
        years |-> years,
        road_counts |-> road_counts,
        total_length_km |-> total_length_km,
        road_density_km_per_km2 |-> [y \in empty_years |-> Number(0)],
        growth_rates |-> [k \in Periods(years) |->
            LET prev_count == road_counts[k[1]]
                curr_count == road_counts[k[2]]
                prev_length == total_length_km[k[1]]
                curr_length == total_length_km[k[2]]
                count_growth == GrowthPercent(Number(prev_count), Number(curr_count))
                length_growth == GrowthPercent(prev_length, curr_length)
            IN [count_growth_percent |-> count_growth,
                length_growth_percent |-> length_growth,
                new_roads |-> curr_count - prev_count,
                new_length_km |-> Sub(curr_length, prev_length),
                years_elapsed |-> k[2] - k[1],
                annual_count_growth_percent |-> PyDiv(count_growth, Number(k[2] - k[1])),
                annual_length_growth_percent |-> PyDiv(length_growth, Number(k[2] - k[1]))]]]

\* prev_areas.get(landuse_type, 0)
AreaGet(areas, landuse_type) ==
    IF landuse_type \in DOMAIN areas THEN Number(areas[landuse_type]) ELSE Number(0)

\* sum(area_by_type.values())
RECURSIVE SumAreas(_)
SumAreas(area_by_type) ==
    IF DOMAIN area_by_type = {} THEN 0
    ELSE LET t == CHOOSE t \in DOMAIN area_by_type : TRUE
         IN area_by_type[t]
              + SumAreas([u \in DOMAIN area_by_type \ {t} |-> area_by_type[u]])

CalculateLanduseChanges(keys, landuse_by_year) ==
    IF Len(keys) < 2 THEN [kind |-> "empty"]
    ELSE
    LET years == SortedKeys(keys)
        landuse_areas_m2 == landuse_by_year
        total_area(y) == SumAreas(landuse_areas_m2[y])
        landuse_percentages == [y \in DOMAIN landuse_by_year |->
            IF total_area(y) > 0
            THEN [t \in DOMAIN landuse_areas_m2[y] |->
                     Mul(PyDiv(Number(landuse_areas_m2[y][t]), Number(total_area(y))),
                         Number(100))]
            ELSE [t \in {} |-> Number(0)]]
    IN [kind |-> "landuse_changes",
        years |-> years,
        landuse_areas_m2 |-> landuse_areas_m2,
        landuse_percentages |-> landuse_percentages,
        transitions |-> [k \in Periods(years) |->
            LET prev_areas == landuse_areas_m2[k[1]]
                curr_areas == landuse_areas_m2[k[2]]
                all_types == DOMAIN prev_areas \cup DOMAIN curr_areas
            IN [landuse_type \in all_types |->
                  LET prev_area == AreaGet(prev_areas, landuse_type)
                      curr_area == AreaGet(curr_areas, landuse_type)
                      change == Sub(curr_area, prev_area)
                  IN [prev_area_m2 |-> prev_area,
                      curr_area_m2 |-> curr_area,
                      change_m2 |-> change,
                      percent_change |-> IF Positive(prev_area)
                                         THEN Mul(PyDiv(change, prev_area), Number(100))
                                         ELSE Number(0)]]]]

\* ((curr_density - prev_density) / prev_density * 100).fillna(0)
\*     .replace([np.inf, -np.inf], 0), cell by cell
RelativeGrowth(prev_density, curr_density) ==
    ReplaceInf(Fillna(Mul(NpDiv(Sub(curr_density, prev_density), prev_density),
                          Number(100)),
                      Number(0)),
               Number(0))

InsertNum(x, s) ==
    LET n == Cardinality({i \in DOMAIN s : ~Less(x, s[i])})
    IN SubSeq(s, 1, n) \o <<x>> \o SubSeq(s, n + 1, Len(s))

RECURSIVE SortNums(_)
SortNums(s) ==
    IF s = <<>> THEN <<>> ELSE InsertNum(Head(s), SortNums(Tail(s)))

\* Series.quantile(q) with q = q_num / q_den, by linear interpolation between
\* the two closest ranks; NaN for an empty Series.
Quantile(series, q_num, q_den) ==
    LET n == Len(series)
        sorted == SortNums(series)
        lo == (q_num * (n - 1)) \div q_den
        hi == IF lo + 1 < n THEN lo + 1 ELSE lo
        fraction == Num((q_num * (n - 1)) % q_den, q_den)
    IN IF n = 0 THEN NaN
       ELSE Add(sorted[lo + 1],
                Mul(Sub(sorted[hi + 1], sorted[lo + 1]), fraction))

\* absolute_growth[absolute_growth > growth_threshold].index
CellsAbove(absolute_growth, growth_threshold) ==
    {c \in DOMAIN absolute_growth : Less(growth_threshold, absolute_growth[c])}

\* absolute_growth[absolute_growth >= growth_threshold].index
CellsAtLeast(absolute_growth, growth_threshold) ==
    {c \in DOMAIN absolute_growth : ~Less(absolute_growth[c], growth_threshold)}

\* detect_growth_hotspots. The buildings of a year are given by the number
\* of them that each cell of the grid intersects, a year without buildings
\* having none in any cell; bbox_given tells whether the caller passed a
\* bbox. grid_size_km is a whole number of kilometres.
DetectGrowthHotspots(keys, cells_by_year, grid_size_km, bbox_given) ==
    IF Len(keys) < 2 THEN [kind |-> "empty"]
    ELSE IF /\ ~bbox_given
            /\ \A y \in DOMAIN cells_by_year :
                   \A c \in DOMAIN cells_by_year[y] : cells_by_year[y][c] = 0
    THEN [kind |-> "empty"]
    ELSE
    LET years == SortedKeys(keys)
        grid_area_km2 == grid_size_km * grid_size_km
        grid_densities == [y \in DOMAIN cells_by_year |->
            [c \in DOMAIN cells_by_year[y] |->
                PyDiv(Number(cells_by_year[y][c]), Number(grid_area_km2))]]
        absolute_growth(k) == [c \in DOMAIN grid_densities[k[1]] |->
            Sub(grid_densities[k[2]][c], grid_densities[k[1]][c])]
        relative_growth(k) == [c \in DOMAIN grid_densities[k[1]] |->
            RelativeGrowth(grid_densities[k[1]][c], grid_densities[k[2]][c])]
        growth_threshold(k) == Quantile(absolute_growth(k), 4, 5)
    IN [kind |-> "hotspots",
        years |-> years,
        grid_densities |-> grid_densities,
        growth_rates |-> [k \in Periods(years) |->
            [absolute_growth |-> absolute_growth(k),
             relative_growth |-> relative_growth(k)]],
        growth_threshold |-> [k \in Periods(years) |-> growth_threshold(k)],
        hotspots |-> [k \in Periods(years) |->
            [c \in CellsAtLeast(absolute_growth(k), growth_threshold(k)) |->
                [absolute_growth |-> absolute_growth(k)[c],
                 relative_growth |-> relative_growth(k)[c]]]]]

(***************************************************************************)
(* The metrics of one collection (metrics.py, helpers.py, spatial.py).     *)
(* Buildings are given by their number and the sum of their areas, roads   *)
(* by their number and the sum of their lengths; what else the code takes  *)
(* from the geometries is given with the collection.                       *)
(***************************************************************************)
EmptyDict == [x \in {} |-> 0]

\* calculate_building_density
CalculateBuildingDensity(buildings_gdf, area_km2) ==
    IF buildings_gdf.count = 0 \/ area_km2 <= 0
    THEN [buildings_per_km2 |-> Number(0),
          building_coverage_ratio |-> Number(0),
          avg_building_area_m2 |-> Number(0)]
    ELSE [buildings_per_km2 |-> PyDiv(Number(buildings_gdf.count), Number(area_km2)),
          building_coverage_ratio |->
              PyDiv(Number(buildings_gdf.area_m2), Number(area_km2 * 1000000)),
          avg_building_area_m2 |->
              PyDiv(Number(buildings_gdf.area_m2), Number(buildings_gdf.count))]

\* calculate_road_density
CalculateRoadDensity(roads_gdf, area_km2) ==
    IF roads_gdf.count = 0 \/ area_km2 <= 0
    THEN [road_length_km_per_km2 |-> Number(0), total_road_length_km |-> Number(0)]
    ELSE LET total_length_km == PyDiv(Number(roads_gdf.length_m), Number(1000))
         IN [road_length_km_per_km2 |-> PyDiv(total_length_km, Number(area_km2)),
             total_road_length_km |-> total_length_km]

CalculateDensityMetrics(buildings_gdf, roads_gdf, analysis_area_km2) ==
    LET building_density ==
            IF buildings_gdf.count # 0 /\ analysis_area_km2 > 0
            THEN CalculateBuildingDensity(buildings_gdf, analysis_area_km2)
            ELSE [buildings_per_km2 |-> Number(0),
                  building_coverage_ratio |-> Number(0),
                  avg_building_area_m2 |-> Number(0)]
        road_density ==
            IF roads_gdf.count # 0 /\ analysis_area_km2 > 0
            THEN CalculateRoadDensity(roads_gdf, analysis_area_km2)
            ELSE [road_length_km_per_km2 |-> Number(0),
                  total_road_length_km |-> Number(0)]
    IN [kind |-> "density", raised |-> FALSE,
        metrics |-> building_density @@ road_density]

\* calculate_compactness_metrics; shape is what the geometries of a
\* collection that is not empty come to, or None when working on them raises.
CalculateCompactnessMetrics(buildings_gdf, shape) ==
    LET defaults == [compactness_ratio |-> Number(0),
                     average_nearest_neighbor_distance |-> Number(0),
                     building_cluster_count |-> 0]
    IN [kind |-> "compactness", raised |-> FALSE,
        metrics |-> IF buildings_gdf.count = 0 THEN defaults
                    ELSE IF shape = None THEN defaults
                    ELSE [compactness_ratio |-> shape.compactness_ratio,
                          average_nearest_neighbor_distance |->
                              IF buildings_gdf.count > 1
                              THEN shape.average_nearest_neighbor_distance
                              ELSE Number(0),
                          building_cluster_count |-> shape.building_cluster_count]]

RECURSIVE SumSeq(_)
SumSeq(s) == IF s = <<>> THEN 0 ELSE Head(s) + SumSeq(Tail(s))

\* int(np.ceil(a / b)) for whole a >= 0 and b > 0
CeilDiv(a, b) == (a + b - 1) \div b

\* _calculate_distance_bands with distances in metres and the band width in
\* metres; a band is named by its index.
CalculateDistanceBands(distances, band_width_m) ==
    IF distances = <<>> THEN EmptyDict
    ELSE LET num_bands == CeilDiv(MaxOf(Range(distances)), band_width_m)
         IN [i \in 0..(num_bands - 1) |->
                Cardinality({n \in DOMAIN distances :
                    /\ i * band_width_m <= distances[n]
                    /\ distances[n] < (i + 1) * band_width_m})]

BandWidthM == 2000

\* The body of the loop of analyze_urban_sprawl for buildings that are not
\* checked for being empty: np.max of no distances raises.
YearSprawlUnguarded(buildings) ==
    IF buildings.distances = <<>> THEN [raised |-> TRUE]
    ELSE LET distance_bands == CalculateDistanceBands(buildings.distances, BandWidthM)
         IN [raised |-> FALSE,
             urban_extent |-> IF buildings.hull_area_m2 = None THEN Number(0)
                              ELSE buildings.hull_area_m2,
             sprawl_indices |->
                 [mean_distance_from_center |->
                      PyDiv(Number(SumSeq(buildings.distances)),
                            Number(Len(buildings.distances))),
                  max_distance_from_center |->
                      Number(MaxOf(Range(buildings.distances))),
                  buildings_count |-> Len(buildings.distances),
                  density_gradient |-> distance_bands],
             distance_bands |-> distance_bands]

\* The body of the loop of analyze_urban_sprawl for the buildings of a year,
\* given by the distance of each from the centre in metres and the area of
\* their convex hull, None when taking the hull raises.
YearSprawl(buildings) ==
    IF buildings.distances = <<>>
    THEN [raised |-> FALSE,
          urban_extent |-> Number(0),
          sprawl_indices |-> EmptyDict,
          distance_bands |-> EmptyDict]
    ELSE YearSprawlUnguarded(buildings)

\* analyze_urban_sprawl, without the standard deviation of the distances.
AnalyzeUrbanSprawl(keys, buildings_by_year, center_given) ==
    IF Len(keys) < 2 THEN [kind |-> "empty", raised |-> FALSE]
    ELSE
    LET years == SortedKeys(keys)
        no_center == /\ ~center_given
                     /\ \A y \in DOMAIN buildings_by_year :
                            buildings_by_year[y].distances = <<>>
        by_year == [y \in DOMAIN buildings_by_year |-> YearSprawl(buildings_by_year[y])]
    IN IF no_center
       THEN [kind |-> "sprawl", raised |-> FALSE, years |-> years,
             urban_extent |-> EmptyDict,
             sprawl_indices |-> EmptyDict,
             distance_bands |-> EmptyDict]
       ELSE IF \E y \in DOMAIN by_year : by_year[y].raised
       THEN [kind |-> "sprawl", raised |-> TRUE]
       ELSE [kind |-> "sprawl", raised |-> FALSE, years |-> years,
             urban_extent |-> [y \in DOMAIN by_year |-> by_year[y].urban_extent],
             sprawl_indices |-> [y \in DOMAIN by_year |-> by_year[y].sprawl_indices],
             distance_bands |-> [y \in DOMAIN by_year |-> by_year[y].distance_bands]]

\* analyze_connectivity; clusters are the sizes of the clusters that DBSCAN
\* finds among the buildings.
AnalyzeConnectivity(buildings_gdf, roads_gdf, clusters) ==
    IF buildings_gdf.count = 0 /\ roads_gdf.count = 0
    THEN [kind |-> "empty", raised |-> FALSE]
    ELSE
    LET total_road_length == Number(roads_gdf.length_m)
        urban_area_km2 == Num(buildings_gdf.area_m2, 1000000)
        road_density ==
            IF buildings_gdf.count # 0 /\ Positive(urban_area_km2)
            THEN PyDiv(PyDiv(total_road_length, Number(1000)), urban_area_km2)
            ELSE Number(0)
        road_network ==
            [total_length_km |-> PyDiv(total_road_length, Number(1000)),
             segment_count |-> roads_gdf.count,
             road_density_km_per_km2 |-> road_density,
             average_segment_length_m |->
                 PyDiv(total_road_length, Number(roads_gdf.count))]
        building_clusters ==
            [cluster_count |-> Len(clusters),
             clustered_buildings |-> SumSeq(clusters),
             isolated_buildings |-> buildings_gdf.count - SumSeq(clusters),
             largest_cluster_size |->
                 IF clusters # <<>> THEN Number(MaxOf(Range(clusters))) ELSE Number(0),
             average_cluster_size |->
                 IF clusters # <<>>
                 THEN PyDiv(Number(SumSeq(clusters)), Number(Len(clusters)))
                 ELSE Number(0)]
    IN [kind |-> "connectivity", raised |-> FALSE,
        road_network |-> IF roads_gdf.count # 0 THEN road_network ELSE None,
        building_clusters |-> IF buildings_gdf.count # 0 THEN building_clusters
                              ELSE None]

\* calculate_fragmentation_metrics; the polygons are given by the column
\* that names their type and, for each type, their number, the sum of their
\* areas, the largest area and the sum of their perimeters.
CalculateFragmentationMetrics(landuse_gdf) ==
    IF DOMAIN landuse_gdf.patches = {} THEN [kind |-> "empty", raised |-> FALSE]
    ELSE IF landuse_gdf.column \notin {"landuse_category", "landuse"}
    THEN [kind |-> "empty", raised |-> FALSE]
    ELSE [kind |-> "fragmentation", raised |-> FALSE,
          metrics |-> [landuse_type \in DOMAIN landuse_gdf.patches |->
              LET type_polygons == landuse_gdf.patches[landuse_type]
                  total_area_m2 == Number(type_polygons.area_m2)
              IN [patch_count |-> type_polygons.count,
                  total_area_m2 |-> total_area_m2,
                  mean_patch_area_m2 |->
                      PyDiv(total_area_m2, Number(type_polygons.count)),
                  largest_patch_area_m2 |-> Number(type_polygons.largest_m2),
                  patch_density_per_km2 |->
                      IF Positive(total_area_m2)
                      THEN PyDiv(Number(type_polygons.count),
                                 PyDiv(total_area_m2, Number(1000000)))
                      ELSE Number(0),
                  total_edge_length_m |-> Number(type_polygons.edge_m),
                  edge_density |->
                      IF Positive(total_area_m2)
                      THEN PyDiv(Number(type_polygons.edge_m), total_area_m2)
                      ELSE Number(0)]]]

(***************************************************************************)
(* The processor (processor.py). A feature is a point on a line with its   *)
(* number of non-null attributes; the buffers of two features intersect    *)
(* when the points are at most twice the tolerance apart.                  *)
(***************************************************************************)
Distance(a, b) == IF a >= b THEN a - b ELSE b - a
Intersects(f, g, tolerance) == Distance(f.pos, g.pos) <= 2 * tolerance

\* The inner loop stopped after the first duplicate it marks.
RECURSIVE InnerLoopFirstOnly(_, _, _, _, _)
InnerLoopFirstOnly(gdf, tolerance, i, j, duplicates) ==
    IF j > Len(gdf) THEN duplicates
    ELSE IF j \in duplicates
    THEN InnerLoopFirstOnly(gdf, tolerance, i, j + 1, duplicates)
    ELSE IF Intersects(gdf[i], gdf[j], tolerance)
    THEN IF gdf[i].count >= gdf[j].count
         THEN duplicates \cup {j}
         ELSE duplicates \cup {i}
    ELSE InnerLoopFirstOnly(gdf, tolerance, i, j + 1, duplicates)

\* for j in range(i + 1, len(gdf)): the later feature is marked unless it
\* has more attributes, in which case i is marked and the loop is left.
RECURSIVE InnerLoop(_, _, _, _, _)
InnerLoop(gdf, tolerance, i, j, duplicates) ==
    IF j > Len(gdf) THEN duplicates
    ELSE IF j \in duplicates
    THEN InnerLoop(gdf, tolerance, i, j + 1, duplicates)
    ELSE IF Intersects(gdf[i], gdf[j], tolerance)
    THEN IF gdf[i].count >= gdf[j].count
         THEN InnerLoop(gdf, tolerance, i, j + 1, duplicates \cup {j})
         ELSE duplicates \cup {i}
    ELSE InnerLoop(gdf, tolerance, i, j + 1, duplicates)

\* for i in range(len(gdf)), skipping the features already marked.
RECURSIVE OuterLoop(_, _, _, _)
OuterLoop(gdf, tolerance, i, duplicates) ==
    IF i > Len(gdf) THEN duplicates
    ELSE IF i \in duplicates THEN OuterLoop(gdf, tolerance, i + 1, duplicates)
    ELSE OuterLoop(gdf, tolerance, i + 1,
                   InnerLoop(gdf, tolerance, i, i + 1, duplicates))

RECURSIVE Keep(_, _, _)
Keep(gdf, duplicates, i) ==
    IF i > Len(gdf) THEN <<>>
    ELSE IF i \in duplicates THEN Keep(gdf, duplicates, i + 1)
    ELSE <<gdf[i]>> \o Keep(gdf, duplicates, i + 1)

RemoveDuplicates(gdf, tolerance) ==
    IF Len(gdf) <= 1 THEN gdf
    ELSE Keep(gdf, OuterLoop(gdf, tolerance, 1, {}), 1)

(***************************************************************************)
(* The cache store driven through its public operations.                   *)
(***************************************************************************)
CacheRequest == Request(SmallBbox, OneFeature, NoDate)
CacheRequests == {CacheRequest}
DataIds == {"data_1"}
AnalysisIds == {"analysis_1"}

Buildings1 == Gdf(<<Row(1, 0)>>)
Buildings2 == Gdf(<<Row(1, 0), Row(2, 0)>>)
DataValues == {Buildings1, Buildings2}
ProcessedValues == {Buildings1}
ResultValues == {[kind |-> "results", buildings |-> 1]}

CachePaths ==
    {OsmPath(r.bbox, r.features, r.date_filter) : r \in CacheRequests}
    \cup {MetaPath(r.bbox, r.features, r.date_filter) : r \in CacheRequests}
    \cup {GetCachePath("processed_data", i, "pkl") : i \in DataIds}
    \cup {GetCachePath("analysis_results", i, "json") : i \in AnalysisIds}

CollectorBboxes ==
    {SmallBbox, BigBbox, EdgeBbox}
        \cup Range(SplitLargeBbox(BigBbox, ChunkAreaKm2))
CollectorPaths ==
    {OsmPath(b, ManyFeatures, NoDate) : b \in CollectorBboxes \ {SmallBbox}}
    \cup {MetaPath(b, ManyFeatures, NoDate) : b \in CollectorBboxes \ {SmallBbox}}

\* The one analysis of the model saves its results as analysis_<time>.
AnalysisId == "analysis_now"
AnalyzerPaths ==
    {OsmPath(b, OneFeature, NoDate) : b \in InvalidBboxes}
    \cup {MetaPath(b, OneFeature, NoDate) : b \in InvalidBboxes}
    \cup {GetCachePath("analysis_results", AnalysisId, "json")}

AllPaths == CachePaths \cup CollectorPaths \cup AnalyzerPaths

NoRequest == [at |-> 0, call |-> 0, chunk |-> 0, res |-> "no_request"]


IdleCollector ==
    /\ lastRequestTime = 0
    /\ sent = [prev |-> NoRequest, cur |-> NoRequest, n |-> 0]
    /\ run = [pc |-> "idle"]
    /\ out = [op |-> "none"]
    /\ lastGood = [r \in {Request(SmallBbox, OneFeature, NoDate),
                          Request(BigBbox, ManyFeatures, NoDate),
                          Request(EdgeBbox, ManyFeatures, NoDate)}
                            \cup {Request(b, OneFeature, NoDate) : b \in InvalidBboxes}
                       |-> None]

IdleThreads == threads = <<>>

IdlePure == pin = None /\ pout = None

\* The record of a call: the operation, the entry it addressed, that entry's
\* file before the call, the time of the call, the outcome of the file system
\* (saves only) and what the call returned.
Called(op, path, fmt, io, result, raised) ==
    [op |-> op, path |-> path, fmt |-> fmt, pre |-> files[path], at |-> now,
     io |-> io, result |-> result, raised |-> raised]

InitCache ==
    /\ now = StartTime
    /\ files = [p \in AllPaths |-> NoFile]
    /\ ret = [op |-> "none", path |-> None, fmt |-> "none", pre |-> NoFile,
              at |-> StartTime, io |-> "none", result |-> None, raised |-> FALSE]
    /\ steps = 0
    /\ ticks = 0
    /\ IdleCollector
    /\ cacheEnabled = TRUE
    /\ IdleThreads
    /\ IdlePure

\* Time passes between two calls.
Tick ==
    /\ run.pc = "idle"
    /\ steps > 0
    /\ ticks < MaxTicks
    /\ \E d \in TickSteps : now' = now + d
    /\ ticks' = ticks + 1
    /\ UNCHANGED <<files, ret, steps, collectorVars, threadVars, pureVars>>

CallSaveOsmData ==
    /\ steps < MaxSteps
    /\ \E r \in CacheRequests, data \in DataValues, io \in IoOutcomes :
         /\ files' = SaveOsmData(files, data, r.bbox, r.features, r.date_filter, now, io)
         /\ ret' = Called("save_osm_data", OsmPath(r.bbox, r.features, r.date_filter),
                          "pkl", io, None, FALSE)
    /\ steps' = steps + 1
    /\ UNCHANGED <<clockVars, notCache>>

CallGetOsmData ==
    /\ steps < MaxSteps
    /\ \E r \in CacheRequests :
         LET got == GetOsmData(files, r.bbox, r.features, r.date_filter, now)
         IN /\ files' = got.files
            /\ ret' = Called("get_osm_data", OsmPath(r.bbox, r.features, r.date_filter),
                             "pkl", "none", got.result, got.raised)
    /\ steps' = steps + 1
    /\ UNCHANGED <<clockVars, notCache>>

CallSaveProcessedData ==
    /\ steps < MaxSteps
    /\ \E i \in DataIds, data \in ProcessedValues, io \in IoOutcomes \ {"meta_fails"} :
         LET path == GetCachePath("processed_data", i, "pkl")
         IN /\ files' = WriteEntry(files, path, Pickle(data), now, io)
            /\ ret' = Called("save_processed_data", path, "pkl", io, None, FALSE)
    /\ steps' = steps + 1
    /\ UNCHANGED <<clockVars, notCache>>

CallGetProcessedData ==
    /\ steps < MaxSteps
    /\ \E i \in DataIds :
         LET got == GetProcessedData(files, i, now)
         IN /\ files' = got.files
            /\ ret' = Called("get_processed_data",
                             GetCachePath("processed_data", i, "pkl"), "pkl",
                             "none", got.result, got.raised)
    /\ steps' = steps + 1
    /\ UNCHANGED <<clockVars, notCache>>

CallSaveAnalysisResults ==
    /\ steps < MaxSteps
    /\ \E i \in AnalysisIds, res \in ResultValues, io \in IoOutcomes \ {"meta_fails"} :
         LET path == GetCachePath("analysis_results", i, "json")
         IN /\ files' = WriteEntry(files, path, JsonDump(res), now, io)
            /\ ret' = Called("save_analysis_results", path, "json", io, None, FALSE)
    /\ steps' = steps + 1
    /\ UNCHANGED <<clockVars, notCache>>

CallGetAnalysisResults ==
    /\ steps < MaxSteps
    /\ \E i \in AnalysisIds :
         LET got == GetAnalysisResults(files, i, now)
         IN /\ files' = got.files
            /\ ret' = Called("get_analysis_results",
                             GetCachePath("analysis_results", i, "json"), "json",
                             "none", got.result, got.raised)
    /\ steps' = steps + 1
    /\ UNCHANGED <<clockVars, notCache>>

\* clear_cache(cache_type): the subdirectories it empties.  A name that is
\* not a subdirectory of the cache clears nothing.
CacheTypes == <<"osm_data", "processed_data", "analysis_results", "metadata">>
\* cache_type = None, the default.
AllTypes == "None"
ClearedDirsAll(cache_type) == Range(CacheTypes)
ClearedDirs(cache_type) ==
    IF cache_type # AllTypes
    THEN {cache_type} \cap Range(CacheTypes)
    ELSE Range(CacheTypes)

\* Every file of the subdirectories is unlinked and counted.
ClearCache(fs, cache_type) ==
    LET unlinked == {p \in DOMAIN fs :
                        fs[p].exists /\ p.dir \in ClearedDirs(cache_type)}
    IN [files |-> [p \in DOMAIN fs |-> IF p \in unlinked THEN NoFile ELSE fs[p]],
        deleted_count |-> Cardinality(unlinked)]

ClearArguments == {AllTypes, "other"} \cup Range(CacheTypes)

CallClearCache ==
    /\ steps < MaxSteps
    /\ \E cache_type \in ClearArguments :
         LET cleared == ClearCache(files, cache_type)
         IN /\ files' = cleared.files
            /\ ret' = [cache_type |-> cache_type, before |-> files] @@
                      [op |-> "clear_cache", path |-> None, fmt |-> "none",
                       pre |-> NoFile, at |-> now, io |-> "none",
                       result |-> cleared.deleted_count, raised |-> FALSE]
    /\ steps' = steps + 1
    /\ UNCHANGED <<clockVars, notCache>>

NextCache ==
    \/ Tick
    \/ CallSaveOsmData
    \/ CallGetOsmData
    \/ CallSaveProcessedData
    \/ CallGetProcessedData
    \/ CallSaveAnalysisResults
    \/ CallGetAnalysisResults
    \/ CallClearCache

SpecCache == InitCache /\ [][NextCache]_vars

(***************************************************************************)
(* The collector driven through collect_data and collect_historical_data   *)
(* by one thread.                                                          *)
(***************************************************************************)
SmallRequest == Request(SmallBbox, OneFeature, NoDate)
BigRequest == Request(BigBbox, ManyFeatures, NoDate)
EdgeRequest == Request(EdgeBbox, ManyFeatures, NoDate)
CollectorRequests == {SmallRequest, BigRequest, EdgeRequest}
\* estimate_query_complexity and split_large_bbox of the requests of the
\* model, computed once.
AnalyzerRequests ==
    {SmallRequest} \cup {Request(b, OneFeature, NoDate) : b \in InvalidBboxes}
Complexity ==
    [r \in CollectorRequests \cup AnalyzerRequests |->
        EstimateQueryComplexity(r.bbox, r.features)]
SubBboxes ==
    [r \in CollectorRequests \cup AnalyzerRequests |->
        SplitLargeBbox(r.bbox, ChunkAreaKm2)]
YearLists == {<<2020, 2010>>}
Durations == 0..MaxDuration

IoFor(saves) == IF saves THEN IoOutcomes ELSE {"ok"}

Miss(fs) == [result |-> None, files |-> fs, raised |-> FALSE]

\* The arguments of a call, the state it found, and how the server and the
\* file system behave while it runs: how long a request takes to be answered
\* and the outcome of a save.
NewCall(op, r, years, dur, io) ==
    [op |-> op, id |-> steps + 1, req |-> r, years |-> years, at |-> now,
     dur |-> dur, io |-> io,
     pre |-> files[OsmPath(r.bbox, r.features, r.date_filter)],
     prevGood |-> lastGood[r]]

\* Whether the step from fs to fs2 created or overwrote a file.
Wrote(fs, fs2) == \E p \in DOMAIN fs : fs2[p].exists /\ fs2[p] # fs[p]

\* The files that the step from fs to fs2 removed.
Deleted(fs, fs2) == {p \in DOMAIN fs : fs[p].exists /\ ~fs2[p].exists}

\* The request just sent becomes the current one of the last two.
Send(at, call, chunk, res) ==
    [prev |-> sent.cur, n |-> sent.n + 1,
     cur |-> [at |-> at, call |-> call, chunk |-> chunk, res |-> res]]

ByYear(data) == [kind |-> "by_year", data |-> data]

\* The return of collect_data to its caller, and what collect_historical_data
\* does with it (collector.py 197-206) when it is the caller. collected says
\* that collect_data was called at all; nreq, kinds, wrote and deleted are the
\* requests sent, how they fared, and what was done to the files so far.
Return(call, current_data, raised, collected, nreq, kinds, wrote, deleted, fs, t) ==
    LET good == ~raised /\ current_data # None /\ ~IsEmpty(current_data)
        hist == call.op = "collect_historical_data"
        r    == call.req
    IN /\ lastGood' = IF good /\ collected
                      THEN [lastGood EXCEPT ![r] = current_data]
                      ELSE lastGood
       /\ IF hist /\ collected /\ cacheEnabled /\ good
          THEN files' = SaveOsmData(fs, current_data, r.bbox, r.features, NoDate, t,
                                    call.io)
          ELSE files' = fs
       /\ out' = [result |-> IF raised THEN None
                             ELSE IF hist THEN ByYear(HistoricalData(current_data, call.years))
                             ELSE current_data,
                  current |-> current_data,
                  raised |-> raised, nreq |-> nreq, kinds |-> kinds,
                  wrote |-> wrote \/ Wrote(fs, files'), deleted |-> deleted] @@ call
       /\ now' = t
       /\ run' = [pc |-> "idle"]

\* collect_data, up to the return of the single request or the entry into the
\* loop over the sub-boxes.
BeginCollectData(call, fs0) ==
    LET r == call.req
        cached == IF cacheEnabled
                  THEN GetOsmData(fs0, r.bbox, r.features, r.date_filter, now)
                  ELSE Miss(fs0)
    IN IF cached.result # None
       THEN /\ Return(call, cached.result, FALSE, TRUE, 0, {}, FALSE, {}, cached.files, now)
            /\ UNCHANGED <<lastRequestTime, sent>>
       ELSE IF HighComplexity(Complexity[r])
       THEN LET sub_bboxes == SubBboxes[r]
            IN /\ sent.n + Len(sub_bboxes) <= MaxRequests
               /\ run' = [pc |-> "chunks", call |-> call, sub_bboxes |-> sub_bboxes,
                          i |-> 1, all_data |-> <<>>, nreq |-> 0, kinds |-> {},
                          wrote |-> FALSE, deleted |-> Deleted(files, cached.files)]
               /\ files' = cached.files
               /\ UNCHANGED <<now, lastRequestTime, sent, out, lastGood>>
       ELSE /\ sent.n + 1 <= MaxRequests
            /\ \E resp \in Responses(0) :
                 LET single == CollectDataSingle(cached.files, cacheEnabled,
                                                 lastRequestTime, now, r.bbox, r.features,
                                                 r.date_filter, resp, call.dur, call.io)
                 IN /\ Return(call, single.result, single.raised, TRUE, 1,
                              {Upstream(resp)}, Wrote(cached.files, single.files),
                              Deleted(files, cached.files), single.files, single.now)
                    /\ lastRequestTime' = single.last
                    /\ sent' = Send(single.sent, call.id, 0, single.res)

CallCollectData ==
    /\ run.pc = "idle"
    /\ steps < MaxCalls
    /\ \E r \in CollectorRequests, dur \in Durations, io \in IoFor(cacheEnabled) :
         BeginCollectData(NewCall("collect_data", r, <<>>, dur, io), files)
    /\ steps' = steps + 1
    /\ UNCHANGED <<ticks, cacheEnabled, notCollector>>

\* collect_historical_data(bbox, features, years) for one of the requests.
CollectHistoricalData(requests) ==
    \E r \in requests, years \in YearLists, dur \in Durations,
       io \in IoFor(cacheEnabled) :
         LET call == NewCall("collect_historical_data", r, years, dur, io)
             cached == IF cacheEnabled
                       THEN GetOsmData(files, r.bbox, r.features, NoDate, now)
                       ELSE Miss(files)
         IN IF cached.result # None
            THEN /\ Return(call, cached.result, FALSE, FALSE, 0, {}, FALSE, {},
                             cached.files, now)
                 /\ UNCHANGED <<lastRequestTime, sent>>
            ELSE BeginCollectData(call, cached.files)

CallCollectHistoricalData ==
    /\ run.pc = "idle"
    /\ steps < MaxCalls
    /\ CollectHistoricalData(CollectorRequests)
    /\ steps' = steps + 1
    /\ UNCHANGED <<ticks, cacheEnabled, notCollector>>

\* One turn of the loop of _collect_data_chunked (collector.py 305-319).
ChunkStep ==
    /\ run.pc = "chunks"
    /\ run.i <= Len(run.sub_bboxes)
    /\ \E resp \in Responses(run.i) :
         LET r == run.call.req
             single == CollectDataSingle(files, cacheEnabled, lastRequestTime, now,
                                         run.sub_bboxes[run.i], r.features,
                                         r.date_filter, resp, run.call.dur, run.call.io)
             kept == ~single.raised /\ single.result # None /\ ~IsEmpty(single.result)
         IN /\ files' = single.files
            /\ lastRequestTime' = single.last
            /\ sent' = Send(single.sent, run.call.id, run.i, single.res)
            /\ now' = IF single.raised THEN single.now ELSE single.now + ChunkSleep
            /\ run' = [run EXCEPT !.i = @ + 1,
                                  !.all_data = IF kept THEN Append(@, single.result) ELSE @,
                                  !.nreq = @ + 1,
                                  !.kinds = @ \cup {Upstream(resp)},
                                  !.wrote = @ \/ Wrote(files, single.files)]
    /\ UNCHANGED <<steps, ticks, cacheEnabled, out, lastGood, notCollector>>

\* The rest of _collect_data_chunked (collector.py 321-344) and the return.
ChunkCombine ==
    /\ run.pc = "chunks"
    /\ run.i > Len(run.sub_bboxes)
    /\ LET r == run.call.req
           c == CombineChunks(files, cacheEnabled, run.all_data, r.bbox, r.features,
                              r.date_filter, now, run.call.io)
       IN Return(run.call, c.result, FALSE, TRUE, run.nreq, run.kinds,
                 run.wrote \/ Wrote(files, c.files), run.deleted, c.files, now)
    /\ UNCHANGED <<steps, ticks, cacheEnabled, lastRequestTime, sent, notCollector>>

InitCollector ==
    /\ now = StartTime
    /\ files = [p \in AllPaths |-> NoFile]
    /\ ret = [op |-> "none", path |-> None, fmt |-> "none", pre |-> NoFile,
              at |-> StartTime, io |-> "none", result |-> None, raised |-> FALSE]
    /\ steps = 0
    /\ ticks = 0
    /\ IdleCollector
    /\ cacheEnabled \in BOOLEAN
    /\ IdleThreads
    /\ IdlePure

NextCollector ==
    \/ Tick
    \/ CallCollectData
    \/ CallCollectHistoricalData
    \/ ChunkStep
    \/ ChunkCombine

SpecCollector == InitCollector /\ [][NextCollector]_vars

(***************************************************************************)
(* The analysis (analyzer.py): analyze_urban_growth collects, then runs    *)
(* its stages one after the other and saves the combined results.          *)
(***************************************************************************)
\* validate_coordinates: the four tests that raise ValueError.
ValidateCoordinates(bbox) ==
    /\ ~Less(bbox.south, Number(-90)) /\ ~Less(Number(90), bbox.south)
    /\ ~Less(bbox.north, Number(-90)) /\ ~Less(Number(90), bbox.north)
    /\ ~Less(bbox.west, Number(-180)) /\ ~Less(Number(180), bbox.west)
    /\ ~Less(bbox.east, Number(-180)) /\ ~Less(Number(180), bbox.east)
    /\ Less(bbox.south, bbox.north)
    /\ Less(bbox.west, bbox.east)

\* Steps 2 to 4 of analyze_urban_growth, in the order they run.
StageNames == <<"process", "quantitative", "spatial">>
NumStages == Len(StageNames)
\* The stage in which a routine of the libraries raises: 0 when none does.
FailingStages == 0..NumStages

\* Step 1 of analyze_urban_growth: collect_historical_data(bbox.to_tuple(),
\* features, years).  Nothing is tested before it.
CallAnalyzeUrbanGrowth ==
    /\ run.pc = "idle"
    /\ steps = 0
    /\ pin = None
    /\ CollectHistoricalData(AnalyzerRequests)
    /\ steps' = steps + 1
    /\ pin' = [op |-> "analyze_urban_growth", pc |-> "collected", failing |-> 0]
    /\ UNCHANGED <<ticks, cacheEnabled, ret, threadVars, pout>>

\* comprehensive_results without 'processed_data'.
CacheableResults(call, historical_data) ==
    [metadata |-> [bbox |-> call.req.bbox, years |-> call.years,
                   features |-> call.req.features],
     data_summary |-> historical_data,
     quantitative_analysis |-> "summary_stats",
     spatial_analysis |-> "spatial_results"]

\* Steps 2 to 5 and the save.  No statement of analyze_urban_growth or of
\* its stages is inside a try block: an error raised in a stage, like one
\* raised by the collection, leaves analyze_urban_growth at once.
AnalyzeStages ==
    /\ pin # None
    /\ pin.op = "analyze_urban_growth"
    /\ pin.pc = "collected"
    /\ \E failing \in (IF out.raised THEN {0} ELSE FailingStages),
          io \in IoFor(cacheEnabled) \ {"meta_fails"} :
         LET raised == out.raised \/ failing # 0
             completed == IF out.raised THEN {}
                          ELSE IF failing = 0 THEN {StageNames[i] : i \in 1..NumStages}
                          ELSE {StageNames[i] : i \in 1..(failing - 1)}
             results == CacheableResults(out, out.result)
             path == GetCachePath("analysis_results", AnalysisId, "json")
         IN /\ pin' = [pin EXCEPT !.pc = "done", !.failing = failing]
            /\ pout' = IF raised
                       THEN [kind |-> "raised", completed |-> completed,
                             error |-> IF out.raised THEN "collection"
                                       ELSE StageNames[failing]]
                       ELSE [kind |-> "results", completed |-> completed,
                             results |-> results]
            /\ files' = IF ~raised /\ cacheEnabled
                        THEN WriteEntry(files, path, JsonDump(results), now, io)
                        ELSE files
    /\ UNCHANGED <<clockVars, ret, steps, collectorVars, threadVars>>

NextAnalyzer ==
    \/ Tick
    \/ CallAnalyzeUrbanGrowth
    \/ AnalyzeStages

SpecAnalyzer == InitCollector /\ [][NextAnalyzer]_vars


(***************************************************************************)
(* Threads that call _make_overpass_request on one collector. A step is    *)
(* what a thread does between two points where another thread may run.     *)
(***************************************************************************)
Threads == 1..NumThreads

InitThreads ==
    /\ now = StartTime
    /\ files = [p \in AllPaths |-> NoFile]
    /\ ret = [op |-> "none", path |-> None, fmt |-> "none", pre |-> NoFile,
              at |-> StartTime, io |-> "none", result |-> None, raised |-> FALSE]
    /\ steps = 0
    /\ ticks = 0
    /\ IdleCollector
    /\ cacheEnabled = FALSE
    /\ threads = [t \in Threads |->
                    [pc |-> "idle", current_time |-> 0, time_since_last |-> 0,
                     wake |-> 0, posted |-> <<>>]]
    /\ IdlePure

\* _rate_limit, collector.py 49-50: the clock and last_request_time are read.
ReadTime(t) ==
    /\ threads[t].pc = "idle"
    /\ Len(threads[t].posted) < MaxThreadRequests
    /\ threads' = [threads EXCEPT ![t].pc = "check",
                                  ![t].current_time = now,
                                  ![t].time_since_last = now - lastRequestTime]
    /\ UNCHANGED <<now, lastRequestTime, notThreads>>

\* collector.py 52-54: the thread goes to sleep or goes on.
CheckInterval(t) ==
    /\ threads[t].pc = "check"
    /\ threads' = IF threads[t].time_since_last < MinRequestInterval
                  THEN [threads EXCEPT
                          ![t].pc = "sleep",
                          ![t].wake = now + (MinRequestInterval
                                             - threads[t].time_since_last)]
                  ELSE [threads EXCEPT ![t].pc = "update"]
    /\ UNCHANGED <<now, lastRequestTime, notThreads>>

\* time.sleep returns when the time asked has passed.
Wake(t) ==
    /\ threads[t].pc = "sleep"
    /\ now >= threads[t].wake
    /\ threads' = [threads EXCEPT ![t].pc = "update"]
    /\ UNCHANGED <<now, lastRequestTime, notThreads>>

\* collector.py 56: self.last_request_time = time.time()
UpdateLastRequestTime(t) ==
    /\ threads[t].pc = "update"
    /\ lastRequestTime' = now
    /\ threads' = [threads EXCEPT ![t].pc = "post"]
    /\ UNCHANGED <<now, notThreads>>

\* collector.py 73: the request is sent.
Post(t) ==
    /\ threads[t].pc = "post"
    /\ threads' = [threads EXCEPT ![t].pc = "idle",
                                  ![t].posted = Append(@, now)]
    /\ UNCHANGED <<now, lastRequestTime, notThreads>>

\* Half a second passes.
Pass ==
    /\ now < StartTime + MaxClock
    /\ now' = now + 1
    /\ UNCHANGED <<lastRequestTime, threads, notThreads>>

NextThreads ==
    \/ \E t \in Threads : ReadTime(t)
    \/ \E t \in Threads : CheckInterval(t)
    \/ \E t \in Threads : Wake(t)
    \/ \E t \in Threads : UpdateLastRequestTime(t)
    \/ \E t \in Threads : Post(t)
    \/ Pass

SpecThreads == InitThreads /\ [][NextThreads]_vars

(***************************************************************************)
(* The cache under threads (cache.py): get_osm_data and save_osm_data take *)
(* no lock, so the calls of the threads interleave at their system calls.  *)
(***************************************************************************)
NumCacheThreads == 3
CacheThreads == 1..NumCacheThreads
RaceRequests == {SmallRequest, BigRequest}

\* pickle.dump writes the file in blocks, from the writer's own offset; the
\* model has two blocks per entry.  open(path, 'wb') leaves both empty.
EmptyBlock == [kind |-> "empty"]
Blocks(first, second) == [fmt |-> "blocks", first |-> first, second |-> second]
\* What pickle.load finds: the data whose blocks the file holds, or bytes
\* that do not load.
Joined(content) ==
    IF content.first = content.second /\ content.first # EmptyBlock
    THEN Pickle(content.first)
    ELSE Truncated

IdleCacheThread ==
    [pc |-> "idle", op |-> "none", req |-> SmallRequest, data |-> None,
     linked |-> FALSE, order |-> 0, result |-> None, raised |-> FALSE]

InitRace ==
    /\ now = StartTime
    /\ files = [p \in AllPaths |-> NoFile]
    /\ ret = [op |-> "none", path |-> None, fmt |-> "none", pre |-> NoFile,
              at |-> StartTime, io |-> "none", result |-> None, raised |-> FALSE]
    /\ steps = 0
    /\ ticks = 0
    /\ IdleCollector
    /\ cacheEnabled = TRUE
    /\ threads = [t \in CacheThreads |-> IdleCacheThread]
    /\ IdlePure

EntryPath(t) == OsmPath(threads[t].req.bbox, threads[t].req.features, NoDate)
Writing(t) == threads[t].pc \in {"dump_first", "dump_second"}

\* The call of thread t returns: calls are numbered as they return.
Returned(t, result, raised) ==
    [threads[t] EXCEPT !.pc = "done", !.order = steps + 1, !.result = result,
                       !.raised = raised]

\* save_osm_data, cache.py 134: open(cache_path, 'wb') creates the file or
\* empties the one that is there.
SaveOpen(t) ==
    /\ threads[t].pc = "idle"
    /\ \E r \in RaceRequests, data \in DataValues :
         /\ files' = [files EXCEPT ![OsmPath(r.bbox, r.features, NoDate)] =
                          File(now, Blocks(EmptyBlock, EmptyBlock))]
         /\ threads' = [threads EXCEPT ![t] =
                          [@ EXCEPT !.pc = "dump_first", !.op = "save_osm_data",
                                    !.req = r, !.data = data, !.linked = TRUE]]
    /\ UNCHANGED steps

\* cache.py 135: the blocks of pickle.dump.  A writer whose file was
\* unlinked writes into a file that no path names any more.
DumpFirst(t) ==
    /\ threads[t].pc = "dump_first"
    /\ files' = IF threads[t].linked
                THEN [files EXCEPT ![EntryPath(t)] =
                        File(now, Blocks(threads[t].data, @.content.second))]
                ELSE files
    /\ threads' = [threads EXCEPT ![t].pc = "dump_second"]
    /\ UNCHANGED steps

DumpSecond(t) ==
    /\ threads[t].pc = "dump_second"
    /\ files' = IF threads[t].linked
                THEN [files EXCEPT ![EntryPath(t)] =
                        File(now, Blocks(@.content.first, threads[t].data))]
                ELSE files
    /\ threads' = [threads EXCEPT ![t].pc = "open_meta"]
    /\ UNCHANGED steps

\* cache.py 147-149: the metadata file.
OpenMeta(t) ==
    /\ threads[t].pc = "open_meta"
    /\ files' = [files EXCEPT
                    ![MetaPath(threads[t].req.bbox, threads[t].req.features, NoDate)] =
                        File(now, Truncated)]
    /\ threads' = [threads EXCEPT ![t].pc = "dump_meta"]
    /\ UNCHANGED steps

DumpMeta(t) ==
    /\ threads[t].pc = "dump_meta"
    /\ LET r == threads[t].req
       IN files' = [files EXCEPT ![MetaPath(r.bbox, r.features, NoDate)] =
                      File(now, JsonDump(Metadata(threads[t].data, r.bbox,
                                                  r.features, NoDate, now)))]
    /\ threads' = [threads EXCEPT ![t] = Returned(t, None, FALSE)]
    /\ steps' = steps + 1

\* get_osm_data, cache.py 73 (_is_cache_valid): cache_path.exists()
GetExists(t) ==
    /\ threads[t].pc = "idle"
    /\ \E r \in RaceRequests :
         LET started == [threads[t] EXCEPT !.op = "get_osm_data", !.req = r]
         IN IF files[OsmPath(r.bbox, r.features, NoDate)].exists
            THEN /\ threads' = [threads EXCEPT ![t] = [started EXCEPT !.pc = "stat"]]
                 /\ steps' = steps
            ELSE /\ threads' = [threads EXCEPT ![t] =
                                  [started EXCEPT !.pc = "done", !.order = steps + 1]]
                 /\ steps' = steps + 1
    /\ UNCHANGED files

\* cache.py 77: cache_path.stat() raises when the file has gone; the
\* call is outside the try block of get_osm_data.
GetStat(t) ==
    /\ threads[t].pc = "stat"
    /\ IF ~files[EntryPath(t)].exists
       THEN /\ threads' = [threads EXCEPT ![t] = Returned(t, None, TRUE)]
            /\ steps' = steps + 1
       ELSE IF IsCacheValid(files, EntryPath(t), now)
       THEN /\ threads' = [threads EXCEPT ![t].pc = "load"]
            /\ steps' = steps
       ELSE /\ threads' = [threads EXCEPT ![t] = Returned(t, None, FALSE)]
            /\ steps' = steps + 1
    /\ UNCHANGED files

\* cache.py 104-106: open and pickle.load; what they raise is caught.
GetLoad(t) ==
    /\ threads[t].pc = "load"
    /\ IF files[EntryPath(t)].exists
          /\ Loads(Joined(files[EntryPath(t)].content), "pkl")
       THEN /\ threads' = [threads EXCEPT ![t] =
                             Returned(t, files[EntryPath(t)].content.first, FALSE)]
            /\ steps' = steps + 1
       ELSE /\ threads' = [threads EXCEPT ![t].pc = "unlink"]
            /\ steps' = steps
    /\ UNCHANGED files

\* cache.py 109: cache_path.unlink(missing_ok=True).  The writers that have
\* the file open keep writing into it.
GetUnlink(t) ==
    /\ threads[t].pc = "unlink"
    /\ files' = [files EXCEPT ![EntryPath(t)] = NoFile]
    /\ threads' = [u \in CacheThreads |->
                     IF u = t THEN Returned(t, None, FALSE)
                     ELSE IF Writing(u) /\ EntryPath(u) = EntryPath(t)
                     THEN [threads[u] EXCEPT !.linked = FALSE]
                     ELSE threads[u]]
    /\ steps' = steps + 1

\* What a step of a thread of the cache leaves alone.
notRace == <<clockVars, ret, collectorVars, pureVars>>

NextRace ==
    \/ \E t \in CacheThreads : SaveOpen(t) /\ UNCHANGED notRace
    \/ \E t \in CacheThreads : DumpFirst(t) /\ UNCHANGED notRace
    \/ \E t \in CacheThreads : DumpSecond(t) /\ UNCHANGED notRace
    \/ \E t \in CacheThreads : OpenMeta(t) /\ UNCHANGED notRace
    \/ \E t \in CacheThreads : DumpMeta(t) /\ UNCHANGED notRace
    \/ \E t \in CacheThreads : GetExists(t) /\ UNCHANGED notRace
    \/ \E t \in CacheThreads : GetStat(t) /\ UNCHANGED notRace
    \/ \E t \in CacheThreads : GetLoad(t) /\ UNCHANGED notRace
    \/ \E t \in CacheThreads : GetUnlink(t) /\ UNCHANGED notRace

SpecRace == InitRace /\ [][NextRace]_vars

(***************************************************************************)
(* The pure computations, one of them applied once: a growth computation   *)
(* to the collections of two or three years, the split of a box, the grid  *)
(* of a box, or the removal of duplicates from a collection.               *)
(***************************************************************************)
GrowthYearSets == {{2015, 2020}, {2010, 2015, 2020}}
Counts == {100, 150}
Areas == {0, 200, 300}
Lengths == {0, 1500, 3000}
LanduseCategories == {"residential", "forest"}
CellCounts == {0, 1, 3}
GridSizes == {1, 2}

ByYears(values) == UNION {[Y -> values] : Y \in GrowthYearSets}

\* The orders in which the keys of a dict can have been inserted.
KeyOrders(d) ==
    {k \in [1..Cardinality(DOMAIN d) -> DOMAIN d] : Range(k) = DOMAIN d}

\* An empty collection, or one of count features with the given total.
BuildingInputs ==
    ByYears({[count |-> 0, area_m2 |-> 0]}
            \cup {[count |-> c, area_m2 |-> a] : c \in Counts, a \in Areas})
RoadInputs ==
    ByYears({[count |-> 0, length_m |-> 0]}
            \cup {[count |-> c, length_m |-> l] : c \in Counts, l \in Lengths})
LanduseInputs ==
    ByYears(UNION {[S -> Areas] : S \in SUBSET LanduseCategories})
CellInputs == ByYears([1..NumCells -> CellCounts])

\* One collection: empty, or with features.
BuildingCollections ==
    {[count |-> 0, area_m2 |-> 0]}
        \cup {[count |-> c, area_m2 |-> a] : c \in {1, 100}, a \in Areas}
RoadCollections ==
    {[count |-> 0, length_m |-> 0]}
        \cup {[count |-> c, length_m |-> l] : c \in {1, 100}, l \in Lengths}
AnalysisAreas == {0, 4}
Shapes ==
    {None,
     [compactness_ratio |-> Num(1, 16),
      average_nearest_neighbor_distance |-> Number(30),
      building_cluster_count |-> 2]}
ClustersOf(buildings_gdf) ==
    IF buildings_gdf.count >= 100 THEN {<<>>, <<5>>, <<5, 7>>} ELSE {<<>>}
DistanceLists == {<<>>, <<500>>, <<500, 2500>>, <<2000>>, <<0>>}
SprawlInputs ==
    ByYears({[distances |-> d, hull_area_m2 |-> h] :
                d \in DistanceLists, h \in {None, Number(5000)}})
LandusePolygons ==
    {[column |-> col, patches |-> q] :
        col \in {"landuse_category", "landuse", "none"},
        q \in UNION {[T -> {[count |-> 2, area_m2 |-> a, largest_m2 |-> a, edge_m |-> 40]
                              : a \in {0, 100}}]
                        : T \in SUBSET LanduseCategories}}

\* Boxes whose coordinates are floats of MantissaBits bits: within the limit,
\* exactly at it, and above it with steps that are and are not exact.
SplitBboxes ==
    {Bbox(0, 0, 5, 10), SmallBbox, BigBbox, Bbox(0, 0, 20, 20),
     Bbox(0, 0, 25, 10), Bbox(0, 0, 29, 8),
     FloatBbox(Num(1, 2), Number(0), Number(17), Number(2))}
SplitMaxAreas == {50, 100}
\* Requests that agree or differ in the box, in the features and their
\* order, and in the date filter; the store they meet is empty.
KeyRequests ==
    {Request(b, f, d) : b \in {SmallBbox, BigBbox},
                        f \in {OneFeature, TwoFeatures, TwoFeaturesReversed},
                        d \in {NoDate, SomeDate}}
KeyPaths ==
    {OsmPath(r.bbox, r.features, r.date_filter) : r \in KeyRequests}
        \cup {MetaPath(r.bbox, r.features, r.date_filter) : r \in KeyRequests}
EmptyStore == [p \in KeyPaths |-> NoFile]
Positions == 0..3
AttributeCounts == {1, 2}
Tolerances == {0, 1}
MaxFeatures == 4
\* Collections of up to MaxFeatures features, numbered in their order.
FeatureCollections ==
    UNION {{[k \in 1..n |-> [id |-> k, pos |-> p[k], count |-> c[k]]] :
               p \in [1..n -> Positions], c \in [1..n -> AttributeCounts]}
           : n \in 0..MaxFeatures}
\* Boxes of a few cells: one whose columns fit exactly and three whose
\* columns do not.
GridBboxes ==
    {FloatBbox(Number(0), Number(0), Num(1, 64), Num(1, 64)),
     FloatBbox(Number(0), Number(0), Num(1, 64), Num(1, 16)),
     FloatBbox(Number(0), Number(0), Num(1, 64), Num(7, 128)),
     FloatBbox(Number(0), Num(1, 64), Num(1, 64), Num(9, 64))}

InitGrowth ==
    /\ now = StartTime
    /\ files = [p \in AllPaths |-> NoFile]
    /\ ret = [op |-> "none", path |-> None, fmt |-> "none", pre |-> NoFile,
              at |-> StartTime, io |-> "none", result |-> None, raised |-> FALSE]
    /\ steps = 0
    /\ ticks = 0
    /\ IdleCollector
    /\ cacheEnabled = FALSE
    /\ IdleThreads
    /\ IdlePure

CallCalculateBuildingGrowth ==
    /\ pout = None
    /\ \E b \in BuildingInputs : \E keys \in KeyOrders(b) :
         /\ pin' = [op |-> "calculate_building_growth", keys |-> keys, arg |-> b]
         /\ pout' = CalculateBuildingGrowth(keys, b)
    /\ UNCHANGED notPure

CallCalculateRoadGrowth ==
    /\ pout = None
    /\ \E r \in RoadInputs : \E keys \in KeyOrders(r) :
         /\ pin' = [op |-> "calculate_road_growth", keys |-> keys, arg |-> r]
         /\ pout' = CalculateRoadGrowth(keys, r)
    /\ UNCHANGED notPure

CallCalculateLanduseChanges ==
    /\ pout = None
    /\ \E l \in LanduseInputs : \E keys \in KeyOrders(l) :
         /\ pin' = [op |-> "calculate_landuse_changes", keys |-> keys, arg |-> l]
         /\ pout' = CalculateLanduseChanges(keys, l)
    /\ UNCHANGED notPure

CallDetectGrowthHotspots ==
    /\ pout = None
    /\ \E c \in CellInputs, g \in GridSizes, bbox_given \in BOOLEAN :
         \E keys \in KeyOrders(c) :
            /\ pin' = [op |-> "detect_growth_hotspots", keys |-> keys, arg |-> c,
                       grid_size_km |-> g, bbox_given |-> bbox_given]
            /\ pout' = DetectGrowthHotspots(keys, c, g, bbox_given)
    /\ UNCHANGED notPure

CallCalculateDensityMetrics ==
    /\ pout = None
    /\ \E b \in BuildingCollections, r \in RoadCollections, a \in AnalysisAreas :
         /\ pin' = [op |-> "calculate_density_metrics", buildings |-> b,
                    roads |-> r, analysis_area_km2 |-> a]
         /\ pout' = CalculateDensityMetrics(b, r, a)
    /\ UNCHANGED notPure

CallCalculateCompactnessMetrics ==
    /\ pout = None
    /\ \E b \in BuildingCollections, shape \in Shapes :
         /\ pin' = [op |-> "calculate_compactness_metrics", buildings |-> b,
                    shape |-> shape]
         /\ pout' = CalculateCompactnessMetrics(b, shape)
    /\ UNCHANGED notPure

CallAnalyzeUrbanSprawl ==
    /\ pout = None
    /\ \E b \in SprawlInputs, center_given \in BOOLEAN : \E keys \in KeyOrders(b) :
         /\ pin' = [op |-> "analyze_urban_sprawl", keys |-> keys, arg |-> b,
                    center_given |-> center_given]
         /\ pout' = AnalyzeUrbanSprawl(keys, b, center_given)
    /\ UNCHANGED notPure

CallAnalyzeConnectivity ==
    /\ pout = None
    /\ \E b \in BuildingCollections, r \in RoadCollections :
         \E clusters \in ClustersOf(b) :
            /\ pin' = [op |-> "analyze_connectivity", buildings |-> b, roads |-> r,
                       clusters |-> clusters]
            /\ pout' = AnalyzeConnectivity(b, r, clusters)
    /\ UNCHANGED notPure

CallCalculateFragmentationMetrics ==
    /\ pout = None
    /\ \E l \in LandusePolygons :
         /\ pin' = [op |-> "calculate_fragmentation_metrics", landuse |-> l]
         /\ pout' = CalculateFragmentationMetrics(l)
    /\ UNCHANGED notPure

CallSplitLargeBbox ==
    /\ pout = None
    /\ \E bbox \in SplitBboxes, max_area_km2 \in SplitMaxAreas :
         /\ pin' = [op |-> "split_large_bbox", bbox |-> bbox,
                    max_area_km2 |-> max_area_km2]
         /\ pout' = [kind |-> "bboxes",
                     bboxes |-> SplitLargeBbox(bbox, max_area_km2)]
    /\ UNCHANGED notPure

CallCreateAnalysisGrid ==
    /\ pout = None
    /\ \E bbox \in GridBboxes, grid_size_km \in GridSizes :
         /\ pin' = [op |-> "create_analysis_grid", bbox |-> bbox,
                    grid_size_km |-> grid_size_km]
         /\ pout' = [kind |-> "grid",
                     cells |-> CreateAnalysisGrid(bbox, grid_size_km)]
    /\ UNCHANGED notPure

\* remove_duplicates, and remove_duplicates again on what it returned.
CallRemoveDuplicates ==
    /\ pout = None
    /\ \E gdf \in FeatureCollections, tolerance \in Tolerances :
         LET once == RemoveDuplicates(gdf, tolerance)
         IN /\ pin' = [op |-> "remove_duplicates", gdf |-> gdf,
                       tolerance |-> tolerance]
            /\ pout' = [kind |-> "deduplicated", once |-> once,
                        twice |-> RemoveDuplicates(once, tolerance)]
    /\ UNCHANGED notPure

\* save_osm_data on the empty store, then get_osm_data.
CallSaveThenGetOsmData ==
    /\ pout = None
    /\ \E saved \in KeyRequests, asked \in KeyRequests, data \in DataValues :
         LET fs == SaveOsmData(EmptyStore, data, saved.bbox, saved.features,
                               saved.date_filter, now, "ok")
             got == GetOsmData(fs, asked.bbox, asked.features, asked.date_filter, now)
         IN /\ pin' = [op |-> "save_then_get_osm_data", saved |-> saved,
                       data |-> data, asked |-> asked]
            /\ pout' = [kind |-> "got", result |-> got.result,
                        entries |-> {p \in KeyPaths : p.dir = "osm_data"
                                                      /\ got.files[p].exists}]
    /\ UNCHANGED notPure

MaxQueryFeatures == 3
QueryFeatures ==
    {Feat("building", 0), Feat("building", 1), Feat("building:levels", 0),
     Feat("highway", 0), Feat("highway", 1), Feat("landuse", 0), Feat("landuse", 1)}
QueryFeatureLists == UNION {[1..n -> QueryFeatures] : n \in 0..MaxQueryFeatures}

CallOptimizeOverpassQuery ==
    /\ pout = None
    /\ \E bbox \in {SmallBbox, BigBbox}, features \in QueryFeatureLists :
         /\ pin' = [op |-> "optimize_overpass_query", bbox |-> bbox,
                    features |-> features]
         /\ pout' = [kind |-> "query"] @@ OptimizeOverpassQuery(bbox, features)
    /\ UNCHANGED notPure

NextGrowth ==
    \/ CallSaveThenGetOsmData
    \/ CallOptimizeOverpassQuery
    \/ CallRemoveDuplicates
    \/ CallSplitLargeBbox
    \/ CallCreateAnalysisGrid
    \/ CallCalculateBuildingGrowth
    \/ CallCalculateRoadGrowth
    \/ CallCalculateLanduseChanges
    \/ CallDetectGrowthHotspots
    \/ CallCalculateDensityMetrics
    \/ CallCalculateCompactnessMetrics
    \/ CallAnalyzeUrbanSprawl
    \/ CallAnalyzeConnectivity
    \/ CallCalculateFragmentationMetrics

SpecGrowth == InitGrowth /\ [][NextGrowth]_vars

(***************************************************************************)
(* Claims about the cache store, checked under SpecCache.                  *)
(***************************************************************************)
GetOps == {"get_osm_data", "get_processed_data", "get_analysis_results"}
SaveOps == {"save_osm_data", "save_processed_data", "save_analysis_results"}

\* What the last call found at its entry.
RetAge == ret.at - ret.pre.mtime
RetReadStale == ret.op \in GetOps /\ ret.pre.exists /\ RetAge >= CacheTTL
RetReadCorrupt ==
    /\ ret.op \in GetOps /\ ret.pre.exists /\ RetAge < CacheTTL
    /\ ~Loads(ret.pre.content, ret.fmt)

\* C1: a read of an entry whose file exists and is at least TTL old returns
\* a miss and the stale file no longer exists when the read has returned.
C1_StaleReadRemovesFile ==
    RetReadStale => ret.result = None /\ ~files[ret.path].exists

\* C2: a get_osm_data of an entry that save_osm_data wrote returns the saved
\* data when the entry's age is strictly below the TTL, and a miss when the
\* age is the TTL or more.
C2_RoundTripStrictTTL ==
    (ret.op = "get_osm_data" /\ ret.pre.exists /\ Loads(ret.pre.content, "pkl"))
    => /\ RetAge < CacheTTL => ret.result = ret.pre.content.body
       /\ RetAge >= CacheTTL => ret.result = None

C2_Witness ==
    /\ ret.op = "get_osm_data" /\ ret.pre.exists /\ Loads(ret.pre.content, "pkl")
    /\ RetAge = CacheTTL
    /\ ret.result = None

\* C3: a read of an unexpired entry that cannot be deserialized does not
\* raise, returns a miss and deletes the file; the next read of that entry is
\* a miss too, and the next save of it, when its writes work, leaves an
\* entry that loads.
C3_CorruptReadIsMiss ==
    /\ [](RetReadCorrupt =>
            ret.result = None /\ ~ret.raised /\ ~files[ret.path].exists)
    /\ [][(RetReadCorrupt /\ ret' # ret /\ ret'.path = ret.path) =>
            /\ ~ret'.raised
            /\ ret'.op \in GetOps => ret'.result = None
            /\ (ret'.op \in SaveOps /\ ret'.io = "ok") =>
                  /\ files'[ret.path].exists
                  /\ Loads(files'[ret.path].content, ret.fmt)]_vars

C3_Witness ==
    /\ RetReadCorrupt
    /\ ret.result = None
    /\ ~files[ret.path].exists

(***************************************************************************)
(* Claims about the collector in one thread, checked under SpecCollector.  *)
(***************************************************************************)
Requested == sent.prev.res # "no_request"
SameChunkedCall ==
    Requested /\ sent.cur.call = sent.prev.call /\ sent.prev.chunk > 0

\* C5: any two consecutive requests are sent at least the minimum interval
\* apart, whatever became of the earlier one.
C5_MinSpacing ==
    Requested => sent.cur.at - sent.prev.at >= MinRequestInterval

\* The limiter slept for a request of a later call that followed a request
\* which failed.
C5_Witness ==
    /\ Requested
    /\ sent.prev.res = "none"
    /\ sent.cur.call # sent.prev.call
    /\ sent.cur.at - sent.prev.at = MinRequestInterval

\* C6: the requests of a chunked collection are sent in split order, those
\* of two consecutive sub-boxes at least 1.5 s apart, whatever became of the
\* earlier one.
C6_ChunkSpacing ==
    SameChunkedCall =>
        /\ sent.cur.chunk = sent.prev.chunk + 1
        /\ sent.cur.at - sent.prev.at >= ChunkSleep

Finished == out.op # "none"
OutAge == out.at - out.pre.mtime
NoData(data) == data = None \/ IsEmpty(data)
OutEntryPath == OsmPath(out.req.bbox, out.req.features, out.req.date_filter)

\* A collect_data that follows one which returned a non-empty result for the
\* same request, made while the entry exists and is younger than the TTL.
Repeated ==
    /\ cacheEnabled
    /\ out.op = "collect_data"
    /\ out.prevGood # None
    /\ out.pre.exists
    /\ OutAge < CacheTTL

ServedFromCache == ~out.raised /\ out.result = out.prevGood /\ out.nreq = 0

C9_FetchFailuresContained ==
    (Finished /\ out.nreq > 0 /\ "answered" \notin out.kinds) =>
        /\ ~out.raised
        /\ out.current = None
        /\ out.op = "collect_historical_data" =>
              out.result = ByYear([y \in Range(out.years) |-> EmptyGdf])

(***************************************************************************)
(* Claims about the collector under several threads, checked under         *)
(* SpecThreads.                                                            *)
(***************************************************************************)
\* C4: whatever the interleaving of the threads, no two requests are sent
\* less than the minimum interval apart.
C4_ThreadsMinSpacing ==
    \A a, b \in Threads :
        \A i \in DOMAIN threads[a].posted, j \in DOMAIN threads[b].posted :
            (a # b \/ i # j) =>
                Abs(threads[a].posted[i] - threads[b].posted[j]) >= MinRequestInterval

(***************************************************************************)
(* Claims about the growth computations, checked under SpecGrowth.         *)
(***************************************************************************)
\* pct is (curr - prev) / prev * 100 when prev > 0, and 0 otherwise.
IsGrowthPercent(pct, prev, curr) ==
    IF Positive(prev)
    THEN /\ pct.kind = "num"
         /\ pct.num * curr.den * prev.num
               = 100 * (curr.num * prev.den - prev.num * curr.den) * pct.den
    ELSE pct = Number(0)

IsDelta(delta, prev, curr) ==
    /\ delta.kind = "num"
    /\ delta.num * prev.den * curr.den
          = (curr.num * prev.den - prev.num * curr.den) * delta.den

\* The area of a category in a year, 0 when the year has none of it.
AreaIn(areas, t) == IF t \in DOMAIN areas THEN areas[t] ELSE 0

\* C10: in every growth computation the percent change from prev to curr is
\* (curr - prev) / prev * 100 when prev > 0 and exactly 0 when prev is 0 or
\* absent, the raw delta is curr - prev, and no percent is NaN or infinite.
C10_GrowthPercent ==
    /\ pout.kind = "building_growth" =>
          \A k \in DOMAIN pout.growth_rates :
              LET g == pout.growth_rates[k]
                  prev == pin.arg[k[1]]
                  curr == pin.arg[k[2]]
              IN /\ IsGrowthPercent(g.count_growth_percent,
                                    Number(prev.count), Number(curr.count))
                 /\ IsGrowthPercent(g.area_growth_percent,
                                    Number(prev.area_m2), Number(curr.area_m2))
                 /\ g.new_buildings = curr.count - prev.count
                 /\ IsDelta(g.new_area_m2, Number(prev.area_m2), Number(curr.area_m2))
    /\ pout.kind = "road_growth" =>
          \A k \in DOMAIN pout.growth_rates :
              LET g == pout.growth_rates[k]
                  prev == pin.arg[k[1]]
                  curr == pin.arg[k[2]]
              IN /\ IsGrowthPercent(g.count_growth_percent,
                                    Number(prev.count), Number(curr.count))
                 /\ IsGrowthPercent(g.length_growth_percent,
                                    Num(prev.length_m, 1000), Num(curr.length_m, 1000))
                 /\ g.new_roads = curr.count - prev.count
                 /\ IsDelta(g.new_length_km,
                            Num(prev.length_m, 1000), Num(curr.length_m, 1000))
    /\ pout.kind = "landuse_changes" =>
          \A k \in DOMAIN pout.transitions :
              \A t \in DOMAIN pin.arg[k[1]] \cup DOMAIN pin.arg[k[2]] :
                  LET prev == Number(AreaIn(pin.arg[k[1]], t))
                      curr == Number(AreaIn(pin.arg[k[2]], t))
                  IN /\ t \in DOMAIN pout.transitions[k]
                     /\ IsGrowthPercent(pout.transitions[k][t].percent_change,
                                        prev, curr)
                     /\ IsDelta(pout.transitions[k][t].change_m2, prev, curr)
    /\ pout.kind = "hotspots" =>
          \A k \in DOMAIN pout.growth_rates :
              \A c \in 1..NumCells :
                  LET area == pin.grid_size_km * pin.grid_size_km
                      prev == Num(pin.arg[k[1]][c], area)
                      curr == Num(pin.arg[k[2]][c], area)
                  IN /\ IsGrowthPercent(pout.growth_rates[k].relative_growth[c],
                                        prev, curr)
                     /\ IsDelta(pout.growth_rates[k].absolute_growth[c], prev, curr)

\* Building counts 0, 100, 150: no growth is reported from 0 to 100, and
\* 50.0 percent and 50 new buildings from 100 to 150.
C10_Witness ==
    /\ pout.kind = "building_growth"
    /\ DOMAIN pin.arg = {2010, 2015, 2020}
    /\ pin.arg[2010].count = 0 /\ pin.arg[2015].count = 100 /\ pin.arg[2020].count = 150
    /\ pout.growth_rates[<<2010, 2015>>].count_growth_percent = Number(0)
    /\ pout.growth_rates[<<2015, 2020>>].count_growth_percent = Number(50)
    /\ pout.growth_rates[<<2015, 2020>>].new_buildings = 50

\* The year pairs that a growth computation reported.
YearPairKinds == {"building_growth", "road_growth", "landuse_changes"}
GrowthRecords ==
    IF pout.kind = "landuse_changes" THEN DOMAIN pout.transitions
    ELSE DOMAIN pout.growth_rates

\* C11: for n >= 2 distinct years given in any order, the building, road and
\* land-use computations report the years in ascending order and exactly
\* n - 1 records, one for each pair of years adjacent in that order; no
\* record compares two years that have a supplied year between them.
C11_ConsecutiveYearPairs ==
    pout.kind \in YearPairKinds =>
        LET n == Len(pin.keys)
            supplied == Range(pin.keys)
        IN /\ Len(pout.years) = n
           /\ Range(pout.years) = supplied
           /\ \A i \in 1..(n - 1) : pout.years[i] < pout.years[i + 1]
           /\ Cardinality(GrowthRecords) = n - 1
           /\ \A i \in 1..(n - 1) :
                  <<pout.years[i], pout.years[i + 1]>> \in GrowthRecords
           /\ \A k \in GrowthRecords :
                  /\ k[1] \in supplied /\ k[2] \in supplied /\ k[1] < k[2]
                  /\ ~\E y \in supplied : k[1] < y /\ y < k[2]

\* Three years given newest first, then oldest, then the middle one.
C11_Witness ==
    /\ pout.kind = "landuse_changes"
    /\ pin.keys = <<2020, 2010, 2015>>
    /\ pout.years = <<2010, 2015, 2020>>
    /\ DOMAIN pout.transitions = {<<2010, 2015>>, <<2015, 2020>>}

\* The absolute density growth of a cell in a period, from the input.
CellGrowth(k, c) ==
    Num(pin.arg[k[2]][c] - pin.arg[k[1]][c], pin.grid_size_km * pin.grid_size_km)

\* The value of rank r, counted from 0, among the growths of the cells.
RankGrowth(k, r) ==
    LET cells == DOMAIN pin.arg[k[1]]
        c == CHOOSE c \in cells :
                /\ Cardinality({e \in cells : Less(CellGrowth(k, e), CellGrowth(k, c))}) <= r
                /\ Cardinality({e \in cells : ~Less(CellGrowth(k, c), CellGrowth(k, e))}) > r
    IN CellGrowth(k, c)

\* The 80th percentile of the growths of the cells: the point 4/5 of the
\* way from rank 0 to rank n - 1, interpolated between the ranks around it.
Percentile80(k) ==
    LET n == Cardinality(DOMAIN pin.arg[k[1]])
        lo == (4 * (n - 1)) \div 5
        hi == IF lo + 1 < n THEN lo + 1 ELSE lo
    IN Add(RankGrowth(k, lo),
           Mul(Sub(RankGrowth(k, hi), RankGrowth(k, lo)),
               Num((4 * (n - 1)) % 5, 5)))

\* C13: the hotspots of a period are exactly the cells whose absolute growth
\* is at least the 80th percentile of the absolute growths of the cells in
\* that period; a cell below the percentile is never one of them.
C13_HotspotsAtLeastPercentile ==
    pout.kind = "hotspots" =>
        \A k \in DOMAIN pout.hotspots :
            DOMAIN pout.hotspots[k] =
                {c \in DOMAIN pin.arg[k[1]] :
                    ~Less(CellGrowth(k, c), Percentile80(k))}

\* One cell grew by three buildings and is a hotspot, the other grew by one
\* and is none.
C13_Witness ==
    /\ pout.kind = "hotspots"
    /\ pin.keys = <<2020, 2015>>
    /\ pin.grid_size_km = 1
    /\ pin.arg[2015] = <<0, 0>> /\ pin.arg[2020] = <<3, 1>>
    /\ DOMAIN pout.hotspots[<<2015, 2020>>] = {1}
    /\ pout.growth_threshold[<<2015, 2020>>] = Num(13, 5)

\* C14: a period in which the absolute growth of every cell is zero has no
\* hotspot.
C14_UniformZeroGrowthNoHotspot ==
    pout.kind = "hotspots" =>
        \A k \in DOMAIN pout.hotspots :
            (\A c \in DOMAIN pin.arg[k[1]] : CellGrowth(k, c) = Number(0))
                => DOMAIN pout.hotspots[k] = {}

\* The collection of every year of the call is empty.
EveryInputEmpty ==
    /\ pin # None
    /\ CASE pin.op \in {"calculate_building_growth", "calculate_road_growth"} ->
                \A y \in DOMAIN pin.arg : pin.arg[y].count = 0
          [] pin.op = "calculate_landuse_changes" ->
                \A y \in DOMAIN pin.arg : DOMAIN pin.arg[y] = {}
          [] pin.op = "detect_growth_hotspots" ->
                \A y \in DOMAIN pin.arg : \A c \in DOMAIN pin.arg[y] : pin.arg[y][c] = 0
          [] pin.op = "analyze_urban_sprawl" ->
                \A y \in DOMAIN pin.arg : pin.arg[y].distances = <<>>
          [] pin.op = "calculate_density_metrics" ->
                pin.buildings.count = 0 /\ pin.roads.count = 0
          [] pin.op = "calculate_compactness_metrics" -> pin.buildings.count = 0
          [] pin.op = "analyze_connectivity" ->
                pin.buildings.count = 0 /\ pin.roads.count = 0
          [] pin.op = "calculate_fragmentation_metrics" ->
                DOMAIN pin.landuse.patches = {}
          [] OTHER -> FALSE

\* Every metric of every year in the result is 0 or an empty structure, and
\* no division in it raised.
EveryYearZeroOrEmpty ==
    CASE pout.kind = "empty" -> TRUE
      [] pout.kind = "building_growth" ->
            /\ \A y \in DOMAIN pin.arg :
                  /\ pout.building_counts[y] = 0
                  /\ pout.total_area_m2[y] = Number(0)
                  /\ pout.average_building_size_m2[y] = Number(0)
            /\ \A k \in DOMAIN pout.growth_rates :
                  /\ pout.growth_rates[k].annual_count_growth_percent.kind = "num"
                  /\ pout.growth_rates[k].annual_area_growth_percent.kind = "num"
      [] pout.kind = "road_growth" ->
            /\ \A y \in DOMAIN pin.arg :
                  /\ pout.road_counts[y] = 0
                  /\ pout.total_length_km[y] = Number(0)
                  /\ pout.road_density_km_per_km2[y] = Number(0)
            /\ \A k \in DOMAIN pout.growth_rates :
                  /\ pout.growth_rates[k].annual_count_growth_percent.kind = "num"
                  /\ pout.growth_rates[k].annual_length_growth_percent.kind = "num"
      [] pout.kind = "landuse_changes" ->
            \A y \in DOMAIN pin.arg :
                /\ pout.landuse_areas_m2[y] = EmptyDict
                /\ pout.landuse_percentages[y] = EmptyDict
      [] pout.kind = "hotspots" ->
            \A y \in DOMAIN pin.arg : \A c \in DOMAIN pin.arg[y] :
                pout.grid_densities[y][c] = Number(0)
      [] pout.kind = "sprawl" ->
            /\ ~pout.raised
            /\ \A y \in DOMAIN pout.urban_extent :
                  /\ pout.urban_extent[y] = Number(0)
                  /\ pout.sprawl_indices[y] = EmptyDict
                  /\ pout.distance_bands[y] = EmptyDict
      [] pout.kind = "density" ->
            /\ ~pout.raised
            /\ \A f \in DOMAIN pout.metrics : pout.metrics[f] = Number(0)
      [] pout.kind = "compactness" ->
            /\ ~pout.raised
            /\ pout.metrics.compactness_ratio = Number(0)
            /\ pout.metrics.average_nearest_neighbor_distance = Number(0)
            /\ pout.metrics.building_cluster_count = 0
      [] OTHER -> FALSE

\* C12: when the collection of every requested year is empty, the growth
\* metrics (buildings, roads, land use, density, compactness) and the
\* spatial analyses (hotspots, sprawl, connectivity, fragmentation) raise
\* nothing, and every metric they report for a year is 0 or an empty
\* structure.
C12_EmptyInputZeroMetrics == EveryInputEmpty => EveryYearZeroOrEmpty

\* The sprawl of three years without buildings around a given centre.
C12_Witness ==
    /\ EveryInputEmpty
    /\ pin.op = "analyze_urban_sprawl" /\ pin.center_given
    /\ pout.kind = "sprawl"
    /\ DOMAIN pout.urban_extent = {2010, 2015, 2020}
    /\ \A y \in DOMAIN pout.urban_extent : pout.urban_extent[y] = Number(0)

(***************************************************************************)
(* Claims about the splitting of a bounding box, checked under SpecGrowth. *)
(***************************************************************************)
SplitCall == pout # None /\ pin.op = "split_large_bbox"

\* C15: a box whose estimated area is at most the maximum, equality
\* included, comes back as a list of one element, the box itself.
C15_WithinLimitReturnsInput ==
    (SplitCall /\ ~Less(Number(pin.max_area_km2), AreaKm2(pin.bbox)))
        => pout.bboxes = <<pin.bbox>>

\* The area equals the maximum and the box came back alone.
C15_Witness ==
    /\ SplitCall
    /\ AreaKm2(pin.bbox) = Number(pin.max_area_km2)
    /\ pout.bboxes = <<pin.bbox>>

SplitAbove ==
    SplitCall /\ Less(Number(pin.max_area_km2), AreaKm2(pin.bbox))
LeastNum(S) == CHOOSE x \in S : \A y \in S : ~Less(y, x)
GreatestNum(S) == CHOOSE x \in S : \A y \in S : ~Less(x, y)
Edges(side) == {pout.bboxes[k][side] : k \in 1..Len(pout.bboxes)}
\* The least d with d * d * max_area_km2 >= area_km2.
CeilSqrtRatio(d) ==
    LET area == AreaKm2(pin.bbox)
        Enough(e) == ~Less(Number(e * e * pin.max_area_km2), area)
    IN Enough(d) /\ (d = 0 \/ ~Enough(d - 1))
SplitCount ==
    \E d \in 1..Len(pout.bboxes) :
        CeilSqrtRatio(d) /\ Len(pout.bboxes) = d * d
SplitExtent ==
    /\ LeastNum(Edges("south")) = pin.bbox.south
    /\ LeastNum(Edges("west")) = pin.bbox.west
    /\ GreatestNum(Edges("north")) = pin.bbox.north
    /\ GreatestNum(Edges("east")) = pin.bbox.east

\* C16: a box whose estimated area exceeds the maximum is split into
\* divisions squared boxes, divisions being the ceiling of the square root
\* of area over maximum, and the extent of their union is the original box.
C16_SplitCountAndExtent == SplitAbove => (SplitCount /\ SplitExtent)

\* Area 400 against a maximum of 100: two divisions, four boxes.
C16_FourBoxes ==
    (SplitCall /\ pin.bbox = Bbox(0, 0, 20, 20) /\ pin.max_area_km2 = 100)
        => /\ Len(pout.bboxes) = 4
           /\ SplitExtent
C16_CountOnly == SplitAbove => SplitCount

SubBox(k) == pout.bboxes[k]
LessEq(a, b) == ~Less(b, a)
\* Row i, column j of the split, in the order of the list.
SplitSide == CHOOSE d \in 1..Len(pout.bboxes) : d * d = Len(pout.bboxes)
SplitAt(i, j) == SubBox(i * SplitSide + j + 1)
SharedEdgesEqual ==
    \A i, j \in 0..(SplitSide - 1) :
        /\ i + 1 < SplitSide => SplitAt(i, j).north = SplitAt(i + 1, j).south
        /\ j + 1 < SplitSide => SplitAt(i, j).east = SplitAt(i, j + 1).west
        /\ SplitAt(i, j).south = SplitAt(i, 0).south
        /\ SplitAt(i, j).north = SplitAt(i, 0).north
        /\ SplitAt(i, j).west = SplitAt(0, j).west
        /\ SplitAt(i, j).east = SplitAt(0, j).east
InteriorsDisjoint ==
    \A k, l \in 1..Len(pout.bboxes) :
        k # l => \/ LessEq(SubBox(k).north, SubBox(l).south)
                 \/ LessEq(SubBox(l).north, SubBox(k).south)
                 \/ LessEq(SubBox(k).east, SubBox(l).west)
                 \/ LessEq(SubBox(l).east, SubBox(k).west)
\* With equal shared edges the boxes leave no hole between them, so every
\* point of the original is covered when the outer edges reach its edges.
CoversOriginal ==
    /\ LessEq(LeastNum(Edges("south")), pin.bbox.south)
    /\ LessEq(LeastNum(Edges("west")), pin.bbox.west)
    /\ LessEq(pin.bbox.north, GreatestNum(Edges("north")))
    /\ LessEq(pin.bbox.east, GreatestNum(Edges("east")))

\* C17: the boxes of a split tile the original: boxes that are neighbours
\* share their edge exactly, no two interiors overlap, and every point of
\* the original box lies in some box of the split.
C17_SplitTilesOriginal ==
    SplitAbove => (SharedEdgesEqual /\ InteriorsDisjoint /\ CoversOriginal)
C17_NoOverlapNoHole == SplitAbove => (SharedEdgesEqual /\ InteriorsDisjoint)

(***************************************************************************)
(* Claims about the analysis grid, checked under SpecGrowth.               *)
(***************************************************************************)
GridCall == pout # None /\ pin.op = "create_analysis_grid"
Cell(k) == pout.cells[k]
NumCols == Cardinality({Cell(k).grid_id[2] : k \in 1..Len(pout.cells)})
NumRows == Cardinality({Cell(k).grid_id[3] : k \in 1..Len(pout.cells)})
CellsDisjoint ==
    \A k, l \in 1..Len(pout.cells) :
        k # l => \/ LessEq(Cell(k).north, Cell(l).south)
                 \/ LessEq(Cell(l).north, Cell(k).south)
                 \/ LessEq(Cell(k).east, Cell(l).west)
                 \/ LessEq(Cell(l).east, Cell(k).west)
\* Every column starts where the bbox starts or where another cell of its
\* row ends or overlaps it, and the last one reaches the east edge; the
\* same for the rows.
CellsCover ==
    /\ Len(pout.cells) > 0
    /\ \A k \in 1..Len(pout.cells) :
          /\ \/ LessEq(Cell(k).west, pin.bbox.west)
             \/ \E l \in 1..Len(pout.cells) :
                   /\ l # k /\ Cell(l).grid_id[3] = Cell(k).grid_id[3]
                   /\ Less(Cell(l).west, Cell(k).west)
                   /\ LessEq(Cell(k).west, Cell(l).east)
          /\ \/ LessEq(Cell(k).south, pin.bbox.south)
             \/ \E l \in 1..Len(pout.cells) :
                   /\ l # k /\ Cell(l).grid_id[2] = Cell(k).grid_id[2]
                   /\ Less(Cell(l).south, Cell(k).south)
                   /\ LessEq(Cell(k).south, Cell(l).north)
    /\ \E k \in 1..Len(pout.cells) : LessEq(pin.bbox.east, Cell(k).east)
    /\ \E k \in 1..Len(pout.cells) : LessEq(pin.bbox.north, Cell(k).north)
\* grid_<i>_<j>: i counts the columns from the west, j the rows from the
\* south, and no two cells have the same id.
CellIds ==
    /\ \A k, l \in 1..Len(pout.cells) :
          /\ k # l => Cell(k).grid_id # Cell(l).grid_id
          /\ Cell(k).grid_id[2] < Cell(l).grid_id[2]
                <=> Less(Cell(k).west, Cell(l).west)
          /\ Cell(k).grid_id[3] < Cell(l).grid_id[3]
                <=> Less(Cell(k).south, Cell(l).south)
    /\ {Cell(k).grid_id : k \in 1..Len(pout.cells)}
          = {<<"grid", i, j>> : i \in 0..(NumCols - 1), j \in 0..(NumRows - 1)}

\* C18: the cells of the analysis grid do not overlap one another, their
\* union covers the bounding box, and their ids grid_i_j are distinct, i
\* numbering the columns west to east and j the rows south to north.
C18_GridPartitionsBbox == GridCall => (CellsDisjoint /\ CellsCover /\ CellIds)
C18_GridIds == GridCall => CellIds

(***************************************************************************)
(* Claims about the processor, checked under SpecGrowth.                   *)
(***************************************************************************)
DedupeCall == pout # None /\ pin.op = "remove_duplicates"

\* C19: removing duplicates from what remove_duplicates returned, with the
\* same tolerance, removes nothing: no two features that one pass keeps
\* have buffers that intersect.
C19_RemoveDuplicatesIdempotent ==
    DedupeCall =>
        /\ pout.twice = pout.once
        /\ \A k, l \in 1..Len(pout.once) :
              k # l => ~Intersects(pout.once[k], pout.once[l], pin.tolerance)

\* A pass that removed an earlier feature for a later one with more
\* attributes and a later feature for an earlier one, and kept two.
C19_Witness ==
    /\ DedupeCall
    /\ Len(pin.gdf) = 4 /\ Len(pout.once) = 2
    /\ pout.once[1].id = 2 /\ pout.once[2].id = 3
    /\ pout.twice = pout.once

(***************************************************************************)
(* Claims about the combination of the chunks, checked under               *)
(* SpecCollector.                                                          *)
(***************************************************************************)
\* The rows that the sub-boxes returned, and the first sub-box, in the
\* order of the split, that returned a row with the id.
ChunkRows == UNION {Range(run.all_data[n].rows) : n \in DOMAIN run.all_data}
FirstChunkWith(id) ==
    LET from == {row.from : row \in {w \in ChunkRows : w.osm_id = id}}
    IN CHOOSE c \in from : \A d \in from : c <= d
CombinedRows == out'.current.rows

\* C20: what a chunked collection returns holds every OSM id at most once,
\* and the record of an id that several sub-boxes returned is the one of the
\* first of them in the order of the split.
C20_FirstRecordPerId ==
    [][(run.pc = "chunks" /\ run'.pc = "idle" /\ out'.current # None)
          => /\ \A k, l \in DOMAIN CombinedRows :
                   k # l => CombinedRows[k].osm_id # CombinedRows[l].osm_id
             /\ \A k \in DOMAIN CombinedRows :
                   /\ CombinedRows[k] \in ChunkRows
                   /\ CombinedRows[k].from = FirstChunkWith(CombinedRows[k].osm_id)
             /\ {row.osm_id : row \in ChunkRows}
                   = {CombinedRows[k].osm_id : k \in DOMAIN CombinedRows}]_vars

\* Way 1 came back from sub-boxes 2 and 3, sub-box 1 having returned
\* nothing; the record of sub-box 2 is the one kept.
C20_Witness ==
    /\ run.pc = "idle"
    /\ out.op = "collect_data" /\ out.nreq >= 3
    /\ out.current # None
    /\ out.current.rows = <<Way(3, 2), Way(1, 2), Way(4, 3)>>

(***************************************************************************)
(* Claims about the choice between one request and the chunks, checked     *)
(* under SpecCollector.                                                    *)
(***************************************************************************)
\* The call found no entry that its cache check could return.
Missed ==
    /\ Finished
    /\ ~(/\ cacheEnabled /\ out.pre.exists /\ OutAge < CacheTTL
         /\ Loads(out.pre.content, "pkl"))
OneRequestForAll ==
    out.nreq = 1 /\ sent.cur.call = out.id /\ sent.cur.chunk = 0
OneRequestPerSubBox ==
    /\ out.nreq = Len(SplitLargeBbox(out.req.bbox, 50))
    /\ sent.cur.call = out.id /\ sent.cur.chunk = out.nreq

\* C21: on a cache miss collect_data goes through the chunks, one request
\* for each sub-box of the split, exactly when the estimated complexity is
\* above 1500; at 1500 or below it sends one request for the whole box.
C21_ChunkedIffAboveThreshold ==
    /\ run.pc = "chunks" =>
          EstimateQueryComplexity(run.call.req.bbox, run.call.req.features) > 1500
    /\ Missed =>
          IF EstimateQueryComplexity(out.req.bbox, out.req.features) > 1500
          THEN OneRequestPerSubBox
          ELSE OneRequestForAll

\* A miss at complexity 1500 exactly, answered by one request.
C21_Witness ==
    /\ Missed
    /\ EstimateQueryComplexity(out.req.bbox, out.req.features) = 1500
    /\ OneRequestForAll

(***************************************************************************)
(* Claims about the key of the raw data in the store, checked under        *)
(* SpecGrowth.                                                             *)
(***************************************************************************)
KeyCall == pout # None /\ pin.op = "save_then_get_osm_data"
SameParameters ==
    /\ pin.asked.bbox = pin.saved.bbox
    /\ Range(pin.asked.features) = Range(pin.saved.features)
    /\ pin.asked.date_filter = pin.saved.date_filter

\* C22: a get with the box, the date filter and the features of a save, the
\* features in any order, returns what was saved; a get that differs in the
\* box, in the set of features or in the date filter returns nothing.
C22_KeyOfSortedParameters ==
    KeyCall => /\ SameParameters => pout.result = pin.data
               /\ ~SameParameters => pout.result = None
               /\ Cardinality(pout.entries) = 1

\* The features saved as building, highway and asked as highway, building.
C22_Witness ==
    /\ KeyCall
    /\ pin.saved.features = TwoFeatures
    /\ pin.asked.features = TwoFeaturesReversed
    /\ pout.result = pin.data



(***************************************************************************)
(* C23, C24: the analysis.                                                 *)
(***************************************************************************)
Analysis == pin # None /\ pin.op = "analyze_urban_growth"
AnalysisDone == Analysis /\ pin.pc = "done"

\* C23: an analysis of a bounding box that validate_coordinates rejects
\* raises a validation error and has by then sent no request, read no cache
\* entry and written no file.
C23_InvalidBboxFailsFast ==
    (Analysis /\ ~ValidateCoordinates(out.req.bbox))
        => /\ sent.n = 0
           /\ \A p \in DOMAIN files : ~files[p].exists
           /\ AnalysisDone => (pout.kind = "raised" /\ pout.error = "ValueError")

\* C24: when one stage of an analysis raises, analyze_urban_growth still
\* returns a result structure that carries the results of the stages that
\* completed.
C24_StagesIsolated ==
    (AnalysisDone /\ pin.failing # 0)
        => (pout.kind = "results" /\ pout.completed # {})


(***************************************************************************)
(* C25: clear_cache.                                                       *)
(***************************************************************************)
ClearCall == ret.op = "clear_cache"
\* The namespaces the call was asked to clear.
AskedToClear ==
    IF ret.cache_type = AllTypes THEN Range(CacheTypes) ELSE {ret.cache_type}
InCleared == {p \in DOMAIN files : p.dir \in AskedToClear}

\* C25: clear_cache of one namespace removes every file of that namespace
\* and leaves the files of the other namespaces as they were; clear_cache
\* without a namespace removes every file of the four; the count returned is
\* the number of files that were in the cleared namespaces; and a read of
\* any entry of a cleared namespace then misses.
C25_ClearCache ==
    ClearCall =>
        /\ \A p \in InCleared : ~files[p].exists
        /\ \A p \in DOMAIN files \ InCleared : files[p] = ret.before[p]
        /\ ret.result = Cardinality({p \in InCleared : ret.before[p].exists})
        /\ \A p \in InCleared, fmt \in {"pkl", "json"} :
             ReadEntry(files, p, fmt, now).result = None
C25_Witness ==
    /\ ClearCall
    /\ ret.cache_type = "osm_data"
    /\ ret.result = 1
    /\ \E p \in DOMAIN files : p.dir = "metadata" /\ files[p].exists


(***************************************************************************)
(* C26: the cache under concurrent calls.                                  *)
(***************************************************************************)
AllReturned == \A t \in CacheThreads : threads[t].pc = "done"
Savers(path) ==
    {t \in CacheThreads : threads[t].op = "save_osm_data" /\ EntryPath(t) = path}
Users(path) == {t \in CacheThreads : EntryPath(t) = path}
\* The save of the path that returned last.
LastSaver(path) ==
    CHOOSE t \in Savers(path) : \A u \in Savers(path) : threads[u].order <= threads[t].order
HoldsDataOf(path, t) ==
    /\ files[path].exists
    /\ Joined(files[path].content) = Pickle(threads[t].data)
RacePaths == {OsmPath(r.bbox, r.features, NoDate) : r \in RaceRequests}

\* Calls on distinct keys: a save that had its key to itself left its data
\* there, and a read that had its key to itself missed without an error.
DistinctKeysIndependent ==
    \A t \in CacheThreads :
        Users(EntryPath(t)) = {t} =>
            IF threads[t].op = "save_osm_data"
            THEN HoldsDataOf(EntryPath(t), t)
            ELSE /\ threads[t].result = None
                 /\ ~threads[t].raised
                 /\ ~files[EntryPath(t)].exists

\* Calls on one key: the entry holds the data of the save that returned last.
LastWriteWins ==
    \A path \in RacePaths :
        Savers(path) # {} => HoldsDataOf(path, LastSaver(path))

\* C26: once the concurrent calls have all returned, calls on distinct keys
\* have not affected each other, and a key that was saved holds the data of
\* the last save to return, whatever reads ran beside the saves.
C26_ConcurrentCacheCalls ==
    AllReturned => (DistinctKeysIndependent /\ LastWriteWins)

\* The first half alone.
C26_DistinctKeys == AllReturned => DistinctKeysIndependent
\* One save and one read of the same key, no other save: the key can end
\* without an entry.
C26_SaveBesideRead ==
    ~ /\ AllReturned
      /\ \E path \in RacePaths :
           /\ Cardinality(Savers(path)) = 1
           /\ \A t \in CacheThreads \ Savers(path) :
                threads[t].op = "get_osm_data" /\ ~threads[t].raised
           /\ ~files[path].exists


(***************************************************************************)
(* C27: what remove_duplicates drops.                                      *)
(***************************************************************************)
KeptIds == {pout.once[l].id : l \in 1..Len(pout.once)}
Dropped == {k \in 1..Len(pin.gdf) : pin.gdf[k].id \notin KeptIds}

\* C27: the buffer of every feature that remove_duplicates drops intersects
\* the buffer of a feature that it keeps.
C27_DroppedOverlapsKept ==
    DedupeCall =>
        \A k \in Dropped :
            \E l \in 1..Len(pout.once) :
                Intersects(pin.gdf[k], pout.once[l], pin.tolerance)


(***************************************************************************)
(* C28: what a chunked collection leaves in the cache.                     *)
(***************************************************************************)
ChunkedCall == Finished /\ HighComplexity(Complexity[out.req]) /\ out.nreq > 0
\* The entry of the whole request holds what the call combined.
CombinedStored ==
    /\ out.current # None
    /\ files[OutEntryPath].exists
    /\ files[OutEntryPath].content = Pickle(out.current)

\* C28: a chunked collection that leaves its combined result in the cache
\* under the key of the whole request had an answer from every sub-box: no
\* request of the run failed or returned a malformed body.
C28_NoPartialResultCached ==
    (ChunkedCall /\ CombinedStored) => out.kinds = {"answered"}


(***************************************************************************)
(* C29: the distance bands.                                                *)
(***************************************************************************)
SprawlCall ==
    /\ pout # None
    /\ pin.op = "analyze_urban_sprawl"
    /\ pout.kind = "sprawl"
    /\ ~pout.raised
    /\ DOMAIN pout.distance_bands # {}
BandTotal(bands) ==
    SumSeq([i \in 1..Cardinality(DOMAIN bands) |-> bands[i - 1]])

\* C29: the counts of the distance bands of a year add up to the number of
\* its buildings.
C29_BandsCountEveryBuilding ==
    SprawlCall =>
        \A y \in DOMAIN pout.distance_bands :
            BandTotal(pout.distance_bands[y]) = Len(pin.arg[y].distances)
\* The same for the years whose greatest distance is not a multiple of the
\* width of a band.
C29_BandsBelowMultiple ==
    SprawlCall =>
        \A y \in DOMAIN pout.distance_bands :
            (\A n \in DOMAIN pin.arg[y].distances :
                pin.arg[y].distances[n] % BandWidthM # 0)
              => BandTotal(pout.distance_bands[y]) = Len(pin.arg[y].distances)


(***************************************************************************)
(* C30: the clauses of optimize_overpass_query.                            *)
(***************************************************************************)
QueryCall == pout # None /\ pin.op = "optimize_overpass_query"
\* A clause for the feature itself, or for its key alone, which selects
\* every value of the key.
Covered(f) ==
    \E n \in DOMAIN pout.clauses :
        /\ pout.clauses[n].key = f.key
        /\ pout.clauses[n].value \in {f.value, 0}

\* C30: every feature that was requested is covered by a clause of the
\* query.
C30_EveryFeatureCovered ==
    QueryCall => \A n \in DOMAIN pin.features : Covered(pin.features[n])
\* The features with a value, and the features that mention neither
\* building nor highway, are covered.
C30_ValuedAndOtherCovered ==
    QueryCall =>
        \A n \in DOMAIN pin.features :
            LET f == pin.features[n]
            IN (HasValue(f) \/ (~Mentions(f, "building") /\ ~Mentions(f, "highway")))
                  => Covered(f)

====
